---- MODULE Spec2Model ----
(***************************************************************************)
(* A model of octojoin: the saving-session evaluator and the free-         *)
(* electricity alert machine of monitor.go, the cached reads and the       *)
(* retrying transport of client.go.                                        *)
(*                                                                         *)
(* Monitor time is counted in minutes, transport time in tenths of a       *)
(* second.  Variables whose name starts with "g" are history variables:    *)
(* they record what a handler did and never influence it.                  *)
(***************************************************************************)
EXTENDS Integers, Sequences, FiniteSets, TLC

(***************************************************************************)
(* Program constants                                                       *)
(***************************************************************************)
\* constants.go: free electricity alert intervals, in minutes
AlertIntervalFinal == 15
\* variant: six minutes instead of six hours
AlertIntervalSixMinutes == AlertIntervalFinal - 9
AlertIntervalSixHour == 360
AlertIntervalTwelveHour == 720
AlertIntervalDayOf == 1440
\* client.go:363 and client.go:679: the literal cache ages, in minutes
SavingSessionsCacheAge == 5
FreeElectricityCacheAge == 10
\* constants.go:139: StateCleanupAge, in minutes
StateCleanupAge == 10080

\* client.go:83 (constants.go:88)
HTTPMaxRetries == 3
\* client.go:82 (constants.go:85): one second, in tenths of a second
HTTPMinInterval == 10
\* client.go:187: base of the exponential backoff, in tenths of a second
BackoffBase == 10
\* constants.go:55-70: the smart intervals, in minutes
IntervalPeakAnnouncement == 5
IntervalBusinessHours == 10
IntervalOffPeak == 30
IntervalEventDrivenBase == 15
\* variant: every empty check adds the base once more
IntervalEventDrivenIncrementBase == IntervalEventDrivenBase
IntervalEventDrivenIncrement == 5
IntervalAfterNewSession == 30
\* constants.go:112-121: UK hours of the announcement window and of business
UKPeakAnnouncementStartHour == 14
UKPeakAnnouncementEndHour == 16
UKBusinessHoursStartHour == 9
UKBusinessHoursEndHour == 18
\* client.go:464 (constants.go:76): the refresh buffer of the JWT token,
\* five minutes, in tenths of a second
JWTRefreshBuffer == 3000

(***************************************************************************)
(* Bounds of the model                                                     *)
(***************************************************************************)
\* longest list of saving sessions a fetch returns
MaxList == 2
\* longest list of free electricity sessions a fetch returns
MaxFEList == 1
\* largest delay, in minutes, between the time.Now() of
\* checkFreeElectricitySessions and the time.Now() of shouldAlert
MaxSkew == 1
\* latest instant, in tenths of a second, at which a request may be started
MaxStartTime == 12
\* largest network latency of one attempt, in tenths of a second
MaxLatency == 1

\* the instant of the first tick
T0 == 10
\* a bearer-token operation starts at most this many tenths of a second
\* after one of the instants at which the poll loop wakes up
MaxBusy == 1

VARIABLES
    now,                          \* wall clock at the last tick (minutes)
    minPointsThreshold,           \* SavingSessionMonitor.minPointsThreshold
    KnownSessions,                \* AppState.KnownSessions (set of event ids)
    CachedSavingSessions,         \* AppState.CachedSavingSessions
    KnownFreeElectricitySessions, \* AppState.KnownFreeElectricitySessions
    AlertStates,                  \* AppState.AlertStates: code -> flags
    CachedFreeElectricity,        \* AppState.CachedFreeElectricity
    gJoinAttempts,                \* event id -> number of join calls so far
    gSessionLog,                  \* iterations of the last checkSavingSessions
    gEvalLog,                     \* iterations of the last checkFreeElectricitySessions
    gSkipped,                     \* ended sessions the last tick skipped
    gFireCount,                   \* code -> stage -> alerts of the current record
    gRecWin,                      \* code -> window(s) the current record was evaluated with
    gScen,                        \* code -> progress along the 30h/20h/5h/10m scenario
    rpc,                          \* where the current makeRequest call is
    attempt,                      \* the attempt argument of makeRequestWithRetry
    result,                       \* what makeRequest returned
    clock,                        \* transport clock (tenths of a second)
    lastRequestTime,              \* OctopusClient.lastRequestTime, -1 when zero
    gAttempts,                    \* outbound attempts of the current call
    gLastReply,                   \* what the server answered to the last attempt
    gAllRetryable,                \* every attempt so far got a retryable status
    consecutiveEmptyChecks,       \* SavingSessionMonitor.consecutiveEmptyChecks
    lastNewSessionTime,           \* SavingSessionMonitor.lastNewSessionTime, -1 when zero
    gSSRead,                      \* the last GetSavingSessionsWithCache of a tick
    gFERead,                      \* the last GetFreeElectricitySessionsWithCache of a tick
    jwtToken,                     \* OctopusClient.jwtToken, 0 when empty
    jwtExpiry,                    \* OctopusClient.jwtExpiry, -1 when zero
    gOutbound,                    \* calls the last bearer-token operation sent
    gLastSent,                    \* instant of the latest outbound call, -1 when none
    gGap,                         \* shortest spacing the last action left, -1 when none
    call,                         \* the function applied last and its arguments
    ret,                          \* what it returned
    LastUpdated,                  \* AppState.LastUpdated
    gStateFile,                   \* what the state file holds
    gSave,                        \* the Save of the last tick and how it went
    pcLoop,                       \* where the goroutine of the poll loop is
    foundSaving,                  \* foundNewSessions of the tick in flight (monitor.go:208)
    pcWeb,                        \* where the goroutine of a web request is
    CachedUsageMeasurements,      \* AppState.CachedUsageMeasurements is not nil
    gStoredBy,                    \* who stored each cache entry last
    stopCh,                       \* SavingSessionMonitor.stopCh is closed
    ctxDone,                      \* the context of StartWithContext is cancelled
    gSignal,                      \* when the first signal came and where the loop was
    gReturn,                      \* what StartWithContext returned
    exited,                       \* main has returned: the process is over
    JWTToken,                     \* AppState.JWTToken, 0 when empty
    JWTTokenExpiry,               \* AppState.JWTTokenExpiry, -1 when zero
    gInvalidated,                 \* the last invalidation and what it cleared
    stateFiles,                   \* path -> what the state file at that path holds
    gSaved                        \* account -> what was last written for it

feVars == <<KnownFreeElectricitySessions, AlertStates, CachedFreeElectricity,
            gEvalLog, gSkipped, gFireCount, gRecWin, gScen>>
ssVars == <<minPointsThreshold, KnownSessions, CachedSavingSessions,
            gJoinAttempts, gSessionLog>>
trVars == <<rpc, attempt, result, clock, lastRequestTime, gAttempts, gLastReply,
            gAllRetryable>>
tickVars == <<consecutiveEmptyChecks, lastNewSessionTime, gSSRead, gFERead>>
authVars == <<jwtToken, jwtExpiry, gOutbound>>
paceVars == <<gLastSent, gGap>>
pureVars == <<call, ret>>
saveVars == <<LastUpdated, gStateFile, gSave>>
loopVars == <<pcLoop, foundSaving>>
webVars == <<pcWeb, CachedUsageMeasurements, gStoredBy>>
cancelVars == <<stopCh, ctxDone, gSignal, gReturn, exited>>
jwtStateVars == <<JWTToken, JWTTokenExpiry, gInvalidated>>
fsVars == <<stateFiles, gSaved>>
daemonVars == <<saveVars, loopVars, webVars, cancelVars, jwtStateVars, fsVars>>
vars == <<now, feVars, ssVars, trVars, tickVars, authVars, paceVars, pureVars,
          daemonVars>>

(***************************************************************************)
(* Maps                                                                    *)
(***************************************************************************)
Put(f, k, v) == [x \in DOMAIN f \cup {k} |-> IF x = k THEN v ELSE f[x]]

Remove(f, k) == [x \in DOMAIN f \ {k} |-> f[x]]

Max(a, b) == IF a > b THEN a ELSE b

\* the largest time.Duration (2^63 - 1 nanoseconds), in whole minutes
MaxDuration == 153722867

\* the zero time.Time (1 January of year 1, 00:00 UTC), in minutes before
\* instant 0 of the monitor clock, which is Monday 6 January 2025, 13:55 UTC
ZeroTime == 0 - (739256 * 1440 + 835)

\* time.Since(t) = time.Now().Sub(t): the difference, or the largest
\* (smallest) Duration when the difference does not fit
Since(t, tnow) ==
    IF tnow - t > MaxDuration THEN MaxDuration
    ELSE IF tnow - t < 0 - MaxDuration THEN 0 - MaxDuration
    ELSE tnow - t

\* variant: an entry exactly maxAge old is still valid
IsCacheValidInclusive(cacheTime, maxAge, tnow) == Since(cacheTime, tnow) <= maxAge

\* state.go:158-160
IsCacheValid(cacheTime, maxAge, tnow) == Since(cacheTime, tnow) < maxAge

\* a nil *CachedFreeElectricitySessions
NoFreeElectricityCache == [set |-> FALSE, Data |-> <<>>, Timestamp |-> 0]

\* a nil *CachedSavingSessions
NoSavingSessionsCache ==
    [set |-> FALSE,
     Data |-> [JoinedEvents |-> <<>>, CurrentPointsInWallet |-> 0],
     Timestamp |-> 0]

SeqsUpTo(S, n) == UNION {[1..k -> S] : k \in 0..n}

(***************************************************************************)
(* The free-electricity alert machine (monitor.go)                         *)
(***************************************************************************)
Codes == {"A"}

Stages == {"InitialAlert", "DayOfAlert", "TwelveHourAlert", "SixHourAlert", "FinalAlert"}

\* variant: a new record counts the initial alert as given
NewAlertStateInitialSet == [s \in Stages |-> s = "InitialAlert"]

\* &FreeElectricityAlertState{Code: code}: all five flags false
NewAlertState == [s \in Stages |-> FALSE]

NoAlert(alert) == [alert |-> alert, fire |-> FALSE, type |-> ""]

\* variant: the record is rebuilt with only the new flag
FireRebuilt(alert, stage, type) ==
    [alert |-> [NewAlertState EXCEPT ![stage] = TRUE], fire |-> TRUE, type |-> type]

Fire(alert, stage, type) ==
    [alert |-> [alert EXCEPT ![stage] = TRUE], fire |-> TRUE, type |-> type]

\* variant: the alert is returned but FinalAlert is not set
activeBranchNoFlag(alert) ==
    IF ~alert["FinalAlert"]
    THEN [alert |-> alert, fire |-> TRUE, type |-> "ACTIVE NOW"]
    ELSE NoAlert(alert)

\* monitor.go:613-620, the body of "currently active"
activeBranch(alert) ==
    IF ~alert["FinalAlert"]
    THEN Fire(alert, "FinalAlert", "ACTIVE NOW")
    ELSE NoAlert(alert)

\* variant: the six-hour test comes before the final test
upcomingBranchSixFirst(alert, timeUntil) ==
    IF timeUntil <= AlertIntervalSixHour /\ ~alert["SixHourAlert"]
    THEN Fire(alert, "SixHourAlert", "6-HOUR REMINDER")
    ELSE IF timeUntil <= AlertIntervalFinal /\ ~alert["FinalAlert"]
    THEN Fire(alert, "FinalAlert", "STARTING SOON")
    ELSE IF timeUntil <= AlertIntervalTwelveHour /\ ~alert["TwelveHourAlert"]
    THEN Fire(alert, "TwelveHourAlert", "12-HOUR REMINDER")
    ELSE IF timeUntil <= AlertIntervalDayOf /\ ~alert["DayOfAlert"]
    THEN Fire(alert, "DayOfAlert", "DAY-OF REMINDER")
    ELSE IF ~alert["InitialAlert"]
    THEN Fire(alert, "InitialAlert", "INITIAL ALERT")
    ELSE NoAlert(alert)

\* monitor.go:622-640, the else-if chain of an upcoming session
upcomingBranch(alert, timeUntil) ==
    IF timeUntil <= AlertIntervalFinal /\ ~alert["FinalAlert"]
    THEN Fire(alert, "FinalAlert", "STARTING SOON")
    ELSE IF timeUntil <= AlertIntervalSixHour /\ ~alert["SixHourAlert"]
    THEN Fire(alert, "SixHourAlert", "6-HOUR REMINDER")
    ELSE IF timeUntil <= AlertIntervalTwelveHour /\ ~alert["TwelveHourAlert"]
    THEN Fire(alert, "TwelveHourAlert", "12-HOUR REMINDER")
    ELSE IF timeUntil <= AlertIntervalDayOf /\ ~alert["DayOfAlert"]
    THEN Fire(alert, "DayOfAlert", "DAY-OF REMINDER")
    ELSE IF ~alert["InitialAlert"]
    THEN Fire(alert, "InitialAlert", "INITIAL ALERT")
    ELSE NoAlert(alert)

\* monitor.go:594-641.  tnow is the time.Now() read by shouldAlert itself.
\* Result: the new AlertStates, whether the record was deleted, and the
\* (bool, string) the function returns.
shouldAlert(states, session, timeUntil, tnow) ==
    LET code == session.Code
        st1 == IF code \in DOMAIN states THEN states
               ELSE Put(states, code, NewAlertState)
        alert == st1[code]
    IN  IF session.EndAt < tnow
        THEN [states |-> Remove(st1, code), deleted |-> TRUE,
              fire |-> FALSE, type |-> ""]
        ELSE LET r == IF session.StartAt < tnow /\ session.EndAt > tnow
                      THEN activeBranch(alert)
                      ELSE upcomingBranch(alert, timeUntil)
             IN  [states |-> Put(st1, code, r.alert), deleted |-> FALSE,
                  fire |-> r.fire, type |-> r.type]

\* the flag an alert type sets
StageOf(type) ==
    CASE type = "ACTIVE NOW" -> "FinalAlert"
      [] type = "STARTING SOON" -> "FinalAlert"
      [] type = "6-HOUR REMINDER" -> "SixHourAlert"
      [] type = "12-HOUR REMINDER" -> "TwelveHourAlert"
      [] type = "DAY-OF REMINDER" -> "DayOfAlert"
      [] type = "INITIAL ALERT" -> "InitialAlert"

\* the evaluations of scenario C: time until start, in minutes
ScenarioC == <<1800, 1200, 300, 10>>

NoWin == [kind |-> "none", StartAt |-> 0, EndAt |-> 0]

\* history of the record of one code after one more evaluation
RecWinAfter(w, session) ==
    IF w.kind = "none"
    THEN [kind |-> "one", StartAt |-> session.StartAt, EndAt |-> session.EndAt]
    ELSE IF w.kind = "one" /\ w.StartAt = session.StartAt /\ w.EndAt = session.EndAt
    THEN w
    ELSE [kind |-> "mixed", StartAt |-> 0, EndAt |-> 0]

ScenAfter(k, w, session, timeUntil, tnow) ==
    IF k \in 0..3 /\ w.kind = "one" /\ session.StartAt > tnow
       /\ timeUntil = ScenarioC[k + 1]
    THEN k + 1
    ELSE -1

ZeroCount == [s \in Stages |-> 0]

\* monitor.go:384-455, one iteration of the loop over response.Data.
\* tnow is the time.Now() of the loop, tnow + skew the one of shouldAlert.
feStep(acc, session, tnow, skew) ==
    IF session.EndAt < tnow
    THEN [acc EXCEPT !.skipped = Append(@, session)]
    ELSE LET code == session.Code
             timeUntil == IF session.StartAt > tnow
                          THEN session.StartAt - tnow ELSE 0
             existed == code \in DOMAIN acc.states
             before == IF existed THEN acc.states[code] ELSE NewAlertState
             r == shouldAlert(acc.states, session, timeUntil, tnow + skew)
             w == RecWinAfter(acc.recWin[code], session)
             k == ScenAfter(acc.scen[code], w, session, timeUntil, tnow + skew)
             entry == [Code |-> code, StartAt |-> session.StartAt,
                       EndAt |-> session.EndAt, timeUntil |-> timeUntil,
                       at |-> tnow + skew, existed |-> existed,
                       before |-> before, deleted |-> r.deleted,
                       after |-> IF r.deleted THEN before ELSE r.states[code],
                       fire |-> r.fire, type |-> r.type,
                       steady |-> w.kind = "one",
                       scenStep |-> IF r.deleted THEN 0 ELSE k]
         IN  [known |-> acc.known \cup {code},
              found |-> acc.found \/ code \notin acc.known,
              states |-> r.states,
              log |-> Append(acc.log, entry),
              skipped |-> acc.skipped,
              fireCount |->
                  IF r.deleted THEN [acc.fireCount EXCEPT ![code] = ZeroCount]
                  ELSE IF r.fire
                  THEN [acc.fireCount EXCEPT ![code][StageOf(r.type)] = @ + 1]
                  ELSE acc.fireCount,
              recWin |-> [acc.recWin EXCEPT ![code] = IF r.deleted THEN NoWin ELSE w],
              scen |-> [acc.scen EXCEPT ![code] = IF r.deleted THEN 0 ELSE k]]

RECURSIVE feLoop(_, _, _, _, _)
feLoop(acc, list, i, tnow, skew) ==
    IF i > Len(list) THEN acc
    ELSE feLoop(feStep(acc, list[i], tnow, skew), list, i + 1, tnow, skew)

\* variant: a refetched value is stored under the timestamp of the old entry
GetFreeElectricitySessionsWithCacheOldStamp(cache, reply, tnow) ==
    IF cache.set /\ IsCacheValid(cache.Timestamp, FreeElectricityCacheAge, tnow)
    THEN [err |-> FALSE, Data |-> cache.Data, cache |-> cache, remote |-> FALSE]
    ELSE IF reply.err \/ reply.status # 200
    THEN [err |-> TRUE, Data |-> <<>>, cache |-> cache, remote |-> TRUE]
    ELSE [err |-> FALSE, Data |-> reply.body,
          cache |-> [set |-> TRUE, Data |-> reply.body,
                     Timestamp |-> cache.Timestamp],
          remote |-> TRUE]

\* client.go:676-715.  reply is what the third-party endpoint answers when
\* it is asked: a connection error, or a status with a decoded body.
GetFreeElectricitySessionsWithCache(cache, reply, tnow) ==
    IF cache.set /\ IsCacheValid(cache.Timestamp, FreeElectricityCacheAge, tnow)
    THEN [err |-> FALSE, Data |-> cache.Data, cache |-> cache, remote |-> FALSE]
    ELSE IF reply.err \/ reply.status # 200
    THEN [err |-> TRUE, Data |-> <<>>, cache |-> cache, remote |-> TRUE]
    ELSE [err |-> FALSE, Data |-> reply.body,
          cache |-> [set |-> TRUE, Data |-> reply.body, Timestamp |-> tnow],
          remote |-> TRUE]

\* monitor.go:375-462
checkFreeElectricitySessions(reply, tnow, skew) ==
    LET got == GetFreeElectricitySessionsWithCache(CachedFreeElectricity, reply, tnow)
        acc0 == [known |-> KnownFreeElectricitySessions, found |-> FALSE,
                 states |-> AlertStates, log |-> <<>>, skipped |-> <<>>,
                 fireCount |-> gFireCount, recWin |-> gRecWin, scen |-> gScen]
        acc == IF got.err THEN acc0 ELSE feLoop(acc0, got.Data, 1, tnow, skew)
    IN  [acc EXCEPT !.found = IF got.err THEN FALSE ELSE acc.found]
            @@ [cache |-> got.cache]

\* one call of checkFreeElectricitySessions, made at instant t
CheckFreeElectricity(t, reply, skew) ==
    /\ t > now
    /\ now' = t
    /\ LET r == checkFreeElectricitySessions(reply, t, skew)
       IN  /\ KnownFreeElectricitySessions' = r.known
           /\ AlertStates' = r.states
           /\ CachedFreeElectricity' = r.cache
           /\ gEvalLog' = r.log
           /\ gSkipped' = r.skipped
           /\ gFireCount' = r.fireCount
           /\ gRecWin' = r.recWin
           /\ gScen' = r.scen
    /\ UNCHANGED <<ssVars, trVars, tickVars, authVars, paceVars, pureVars,
                   daemonVars>>

(***************************************************************************)
(* The saving-session evaluator (monitor.go) and its cached read           *)
(***************************************************************************)
SessionIDs == {1, 2}

\* what makeRequest hands to its caller: an error, or a response
ErrResult == [err |-> TRUE, status |-> 0]

Response(status) == [err |-> FALSE, status |-> status]

\* client.go:717-731: TRUE when JoinSavingSession returns an error
JoinSavingSession(res) ==
    res.err \/ (res.status # 200 /\ res.status # 201)

\* client.go:441-460: res is what makeRequest returned, body the decoded
\* list of events of a 200 answer
getSavingSessionsREST(res, body) ==
    IF res.err \/ res.status # 200
    THEN [err |-> TRUE, JoinedEvents |-> <<>>]
    ELSE [err |-> FALSE, JoinedEvents |-> body]

\* variant: when the fetch fails a stale entry is served instead of the error
GetSavingSessionsWithCacheServeStale(cache, res, body, pts, tnow) ==
    IF cache.set /\ IsCacheValid(cache.Timestamp, SavingSessionsCacheAge, tnow)
    THEN [err |-> FALSE, Data |-> cache.Data, cache |-> cache, remote |-> FALSE]
    ELSE LET rest == getSavingSessionsREST(res, body)
             points == IF pts.err THEN 0 ELSE pts.points
             data == [JoinedEvents |-> rest.JoinedEvents,
                      CurrentPointsInWallet |-> points]
         IN  IF rest.err
             THEN [err |-> ~cache.set, Data |-> cache.Data,
                   cache |-> cache, remote |-> TRUE]
             ELSE [err |-> FALSE, Data |-> data,
                   cache |-> [set |-> TRUE, Data |-> data, Timestamp |-> tnow],
                   remote |-> TRUE]

\* client.go:360-439.  pts is the outcome of getOctoPointsGraphQL.  The
\* campaign flag of the combined result is read by no handler modelled
\* here and is left out.
\* variant: a result without the points is returned but not stored
GetSavingSessionsWithCacheSkipStore(cache, res, body, pts, tnow) ==
    IF cache.set /\ IsCacheValid(cache.Timestamp, SavingSessionsCacheAge, tnow)
    THEN [err |-> FALSE, Data |-> cache.Data, cache |-> cache, remote |-> FALSE]
    ELSE LET rest == getSavingSessionsREST(res, body)
             points == IF pts.err THEN 0 ELSE pts.points
             data == [JoinedEvents |-> rest.JoinedEvents,
                      CurrentPointsInWallet |-> points]
         IN  IF rest.err
             THEN [err |-> TRUE, Data |-> NoSavingSessionsCache.Data,
                   cache |-> cache, remote |-> TRUE]
             ELSE [err |-> FALSE, Data |-> data,
                   cache |-> IF pts.err THEN cache
                             ELSE [set |-> TRUE, Data |-> data,
                                   Timestamp |-> tnow],
                   remote |-> TRUE]

GetSavingSessionsWithCache(cache, res, body, pts, tnow) ==
    IF cache.set /\ IsCacheValid(cache.Timestamp, SavingSessionsCacheAge, tnow)
    THEN [err |-> FALSE, Data |-> cache.Data, cache |-> cache, remote |-> FALSE]
    ELSE LET rest == getSavingSessionsREST(res, body)
             points == IF pts.err THEN 0 ELSE pts.points
             data == [JoinedEvents |-> rest.JoinedEvents,
                      CurrentPointsInWallet |-> points]
         IN  IF rest.err
             THEN [err |-> TRUE, Data |-> NoSavingSessionsCache.Data,
                   cache |-> cache, remote |-> TRUE]
             ELSE [err |-> FALSE, Data |-> data,
                   cache |-> [set |-> TRUE, Data |-> data, Timestamp |-> tnow],
                   remote |-> TRUE]

\* variant: the threshold itself is not enough
shouldJoinSessionStrict(session, threshold) == session.OctoPoints > threshold

\* monitor.go:537-539
shouldJoinSession(session, threshold) == session.OctoPoints >= threshold

\* variant of ssStep: the session is marked known only when its join succeeded
ssStepMarkOnSuccess(acc, session, joinRes, tnow) ==
    LET id == session.EventID
        wasKnown == id \in acc.known
        upcoming == session.StartAt > tnow
        joins == ~wasKnown /\ upcoming
                 /\ shouldJoinSession(session, minPointsThreshold)
        joinErr == joins /\ JoinSavingSession(joinRes)
        entry == [EventID |-> id, StartAt |-> session.StartAt,
                  OctoPoints |-> session.OctoPoints, at |-> tnow,
                  wasKnown |-> wasKnown, joined |-> joins, joinErr |-> joinErr]
    IN  IF wasKnown
        THEN [acc EXCEPT !.log = Append(@, entry)]
        ELSE [known |-> IF joinErr THEN acc.known ELSE acc.known \cup {id},
              found |-> TRUE,
              attempts |-> IF joins
                           THEN [acc.attempts EXCEPT ![id] = @ + 1]
                           ELSE acc.attempts,
              log |-> Append(acc.log, entry)]

\* monitor.go:306-365, one iteration of the loop over JoinedEvents.
\* joinRes is what makeRequest returns to the join call of this iteration.
ssStep(acc, session, joinRes, tnow) ==
    LET id == session.EventID
        wasKnown == id \in acc.known
        upcoming == session.StartAt > tnow
        joins == ~wasKnown /\ upcoming
                 /\ shouldJoinSession(session, minPointsThreshold)
        entry == [EventID |-> id, StartAt |-> session.StartAt,
                  OctoPoints |-> session.OctoPoints, at |-> tnow,
                  wasKnown |-> wasKnown, joined |-> joins,
                  joinErr |-> joins /\ JoinSavingSession(joinRes)]
    IN  IF wasKnown
        THEN [acc EXCEPT !.log = Append(@, entry)]
        ELSE [known |-> acc.known \cup {id},
              found |-> TRUE,
              attempts |-> IF joins
                           THEN [acc.attempts EXCEPT ![id] = @ + 1]
                           ELSE acc.attempts,
              log |-> Append(acc.log, entry)]

RECURSIVE ssLoop(_, _, _, _, _)
ssLoop(acc, list, joinRes, i, tnow) ==
    IF i > Len(list) THEN acc
    ELSE ssLoop(ssStep(acc, list[i], joinRes[list[i].EventID], tnow),
                list, joinRes, i + 1, tnow)

\* monitor.go:242-373.  joinRes gives, for each event id, what makeRequest
\* returns to a join of that id during this tick.  The Wheel of Fortune
\* block (256-303) reads and writes only the cached spins and is left out.
checkSavingSessions(res, body, pts, joinRes, tnow) ==
    LET got == GetSavingSessionsWithCache(CachedSavingSessions, res, body, pts, tnow)
        acc0 == [known |-> KnownSessions, found |-> FALSE,
                 attempts |-> gJoinAttempts, log |-> <<>>]
        acc == IF got.err THEN acc0
               ELSE ssLoop(acc0, got.Data.JoinedEvents, joinRes, 1, tnow)
    IN  acc @@ [cache |-> got.cache, fetchErr |-> got.err]

\* one call of checkSavingSessions, made at instant t
CheckSavingSessions(t, res, body, pts, joinRes) ==
    /\ t > now
    /\ now' = t
    /\ LET r == checkSavingSessions(res, body, pts, joinRes, t)
       IN  /\ KnownSessions' = r.known
           /\ CachedSavingSessions' = r.cache
           /\ gJoinAttempts' = r.attempts
           /\ gSessionLog' = r.log
    /\ UNCHANGED <<minPointsThreshold, feVars, trVars, tickVars, authVars, paceVars,
                   pureVars, daemonVars>>

(***************************************************************************)
(* The retrying transport (client.go)                                      *)
(***************************************************************************)
\* a Retry-After header: absent, not an integer, or an integer of seconds
NoHeader == [kind |-> "absent", seconds |-> 0]

ConnError == [err |-> TRUE, status |-> 0, retryAfter |-> NoHeader]

Answer(status, header) == [err |-> FALSE, status |-> status, retryAfter |-> header]

\* variant: 504 is missing from the retryable statuses
shouldRetryNo504(statusCode) ==
    \/ statusCode = 429
    \/ statusCode = 500
    \/ statusCode = 502
    \/ statusCode = 503

\* client.go:178-184
shouldRetry(statusCode) ==
    \/ statusCode = 429
    \/ statusCode = 500
    \/ statusCode = 502
    \/ statusCode = 503
    \/ statusCode = 504

\* variant: the backoff grows by one base per attempt
calculateBackoffLinear(att, jitter) == BackoffBase * (att + 1) + jitter

\* client.go:186-191.  jitter is the draw rand.Float64() * 0.1 * backoff,
\* a value in [0, backoff/10), in whole tenths of a second.
calculateBackoff(att, jitter) == BackoffBase * 2 ^ att + jitter

JitterDraws(att) ==
    {j \in 0..(BackoffBase * 2 ^ att) : 10 * j < BackoffBase * 2 ^ att}

\* variant: the header is not looked at
calculateBackoffFromResponseComputed(reply, att, jitter) == calculateBackoff(att, jitter)

\* client.go:193-200
calculateBackoffFromResponse(reply, att, jitter) ==
    IF reply.retryAfter.kind = "int"
    THEN reply.retryAfter.seconds * 10
    ELSE calculateBackoff(att, jitter)

\* variant: the retry tests read attempt <= maxRetries
makeRequestWithRetryOneMore(reply, att, jitter) ==
    IF reply.err
    THEN IF att <= HTTPMaxRetries
         THEN [retry |-> TRUE, sleep |-> calculateBackoff(att, jitter),
               result |-> ErrResult]
         ELSE [retry |-> FALSE, sleep |-> 0, result |-> ErrResult]
    ELSE IF shouldRetry(reply.status) /\ att <= HTTPMaxRetries
         THEN [retry |-> TRUE,
               sleep |-> calculateBackoffFromResponse(reply, att, jitter),
               result |-> ErrResult]
         ELSE [retry |-> FALSE, sleep |-> 0, result |-> Response(reply.status)]

\* client.go:145-164: what one invocation of makeRequestWithRetry does with
\* the answer to its attempt: sleep and recurse, or return
makeRequestWithRetry(reply, att, jitter) ==
    IF reply.err
    THEN IF att < HTTPMaxRetries
         THEN [retry |-> TRUE, sleep |-> calculateBackoff(att, jitter),
               result |-> ErrResult]
         ELSE [retry |-> FALSE, sleep |-> 0, result |-> ErrResult]
    ELSE IF shouldRetry(reply.status) /\ att < HTTPMaxRetries
         THEN [retry |-> TRUE,
               sleep |-> calculateBackoffFromResponse(reply, att, jitter),
               result |-> ErrResult]
         ELSE [retry |-> FALSE, sleep |-> 0, result |-> Response(reply.status)]

\* client.go:167-176: the instant at which the request goes out
enforceRateLimit(last, t) ==
    IF last # -1 /\ t - last < HTTPMinInterval
    THEN t + (HTTPMinInterval - (t - last))
    ELSE t

NoReply == Answer(0, NoHeader)

\* the spacing between the previous outbound call and one sent at instant t,
\* counted up to the minimum interval; -1 when there was no previous call
Spacing(last, t) ==
    IF last = -1 THEN -1
    ELSE IF t - last < HTTPMinInterval THEN t - last ELSE HTTPMinInterval

\* client.go:118-120: makeRequest enters makeRequestWithRetry with attempt 0
StartRequest ==
    /\ rpc = "idle"
    /\ clock <= MaxStartTime
    /\ rpc' = "call"
    /\ attempt' = 0
    /\ gAttempts' = 0
    /\ gLastReply' = NoReply
    /\ gAllRetryable' = TRUE
    /\ UNCHANGED <<result, clock, lastRequestTime, now, feVars, ssVars,
                   tickVars, authVars, paceVars, pureVars, daemonVars>>

\* time passes between two requests
Elapse ==
    /\ rpc = "idle"
    /\ clock < MaxStartTime
    /\ clock' = clock + 1
    /\ UNCHANGED <<rpc, attempt, result, lastRequestTime, gAttempts, gLastReply,
                   gAllRetryable, now, feVars, ssVars,
                   tickVars, authVars, paceVars, pureVars, daemonVars>>

\* client.go:122-165: one invocation of makeRequestWithRetry
Attempt(reply, latency, jitter) ==
    /\ rpc = "call"
    /\ LET sentAt == enforceRateLimit(lastRequestTime, clock)
           r == makeRequestWithRetry(reply, attempt, jitter)
       IN  /\ lastRequestTime' = sentAt
           /\ gAttempts' = gAttempts + 1
           /\ gLastReply' = reply
           /\ gAllRetryable' = (gAllRetryable /\ ~reply.err /\ shouldRetry(reply.status))
           /\ clock' = sentAt + latency + Max(0, r.sleep)
           /\ IF r.retry
              THEN /\ attempt' = attempt + 1
                   /\ rpc' = "call"
                   /\ UNCHANGED result
              ELSE /\ rpc' = "returned"
                   /\ result' = r.result
                   /\ UNCHANGED attempt
           /\ gLastSent' = sentAt
           /\ gGap' = Spacing(gLastSent, sentAt)
    /\ UNCHANGED <<now, feVars, ssVars, tickVars, authVars, pureVars, daemonVars>>

\* client.go:123-139: the request cannot be built (the body does not
\* marshal, the URL does not parse): the error is returned before anything
\* is sent.  The same arguments fail the same way, so this is attempt 0.
RequestNotBuilt ==
    /\ rpc = "call"
    /\ attempt = 0
    /\ clock' = enforceRateLimit(lastRequestTime, clock)
    /\ rpc' = "returned"
    /\ result' = ErrResult
    /\ UNCHANGED <<attempt, lastRequestTime, gAttempts, gLastReply, gAllRetryable,
                   now, feVars, ssVars, tickVars, authVars, paceVars, pureVars,
                   daemonVars>>

\* the caller takes the result
Return ==
    /\ rpc = "returned"
    /\ rpc' = "idle"
    /\ UNCHANGED <<attempt, result, clock, lastRequestTime, gAttempts, gLastReply,
                   gAllRetryable, now, feVars, ssVars,
                   tickVars, authVars, paceVars, pureVars, daemonVars>>

(***************************************************************************)
(* The retry classifiers (client.go, errors.go)                            *)
(***************************************************************************)
\* no function has been applied yet
NoCall == [fn |-> "none"]

\* no cached read has been made yet
NoRead == [kind |-> "none"]

\* variant: 502 Bad Gateway is left out of the switch
isRetryableStatusNo502(statusCode) == statusCode \in {429, 500, 503, 504}

\* errors.go:53-65: the switch over the status code
isRetryableStatus(statusCode) ==
    CASE statusCode = 429 -> TRUE
      [] statusCode = 500 -> TRUE
      [] statusCode = 502 -> TRUE
      [] statusCode = 503 -> TRUE
      [] statusCode = 504 -> TRUE
      [] OTHER -> FALSE

\* both classifiers applied to one status code: the client's on the answer
\* to a request (client.go:156), the error package's in NewAPIError
\* (errors.go:43-51)
Classify(statusCode) ==
    /\ call' = [fn |-> "classify", statusCode |-> statusCode]
    /\ ret' = [fn |-> "classify",
               shouldRetry |-> shouldRetry(statusCode),
               Retryable |-> isRetryableStatus(statusCode)]
    /\ UNCHANGED <<now, feVars, ssVars, trVars, tickVars, authVars, paceVars,
                   daemonVars>>

(***************************************************************************)
(* The scheduler (monitor.go)                                              *)
(***************************************************************************)
\* British Summer Time of 2025: from Sunday 30 March 01:00 UTC to Sunday
\* 26 October 01:00 UTC, in minutes of the monitor clock
BSTStart == 83 * 1440 + 60 - 835

BSTEnd == 293 * 1440 + 60 - 835

\* time.Now().In(ukLocation): the wall clock of Europe/London, or of UTC
\* when the zone could not be loaded (monitor.go:103-109)
In(t, loaded) ==
    IF loaded /\ t >= BSTStart /\ t < BSTEnd THEN t + 60 ELSE t

\* Time.Hour() and Time.Weekday() (0 is Sunday) of a wall clock; instant 0
\* reads Monday 13:55
Hour(w) == ((w + 835) % 1440) \div 60

Weekday(w) == (((w + 835) \div 1440) + 1) % 7

\* variant: the business hours are tested before the announcement window
getSmartIntervalBusinessFirst(useSmartIntervals, checkInterval, lastNew, count, tnow, loaded) ==
    IF ~useSmartIntervals THEN checkInterval
    ELSE LET hour == Hour(In(tnow, loaded))
             weekday == Weekday(In(tnow, loaded))
             backoffMinutes == IntervalEventDrivenBase
                               + IntervalEventDrivenIncrement * count
         IN  IF lastNew # -1 /\ Since(lastNew, tnow) < IntervalAfterNewSession
             THEN IntervalPeakAnnouncement
             ELSE IF hour >= UKBusinessHoursStartHour
                     /\ hour < UKBusinessHoursEndHour
                     /\ weekday >= 1 /\ weekday <= 5
             THEN IntervalBusinessHours
             ELSE IF hour >= UKPeakAnnouncementStartHour
                     /\ hour < UKPeakAnnouncementEndHour
                     /\ weekday >= 1 /\ weekday <= 5
             THEN IntervalPeakAnnouncement
             ELSE IF count > 0
             THEN IF backoffMinutes > IntervalOffPeak
                  THEN IntervalOffPeak ELSE backoffMinutes
             ELSE IntervalOffPeak

\* monitor.go:97-141.  lastNew and count are the fields lastNewSessionTime
\* and consecutiveEmptyChecks, tnow is time.Now(), loaded tells whether
\* time.LoadLocation("Europe/London") succeeded.  The result is in minutes.
getSmartInterval(useSmartIntervals, checkInterval, lastNew, count, tnow, loaded) ==
    IF ~useSmartIntervals THEN checkInterval
    ELSE LET hour == Hour(In(tnow, loaded))
             weekday == Weekday(In(tnow, loaded))
             backoffMinutes == IntervalEventDrivenBase
                               + IntervalEventDrivenIncrement * count
         IN  IF lastNew # -1 /\ Since(lastNew, tnow) < IntervalAfterNewSession
             THEN IntervalPeakAnnouncement
             ELSE IF hour >= UKPeakAnnouncementStartHour
                     /\ hour < UKPeakAnnouncementEndHour
                     /\ weekday >= 1 /\ weekday <= 5
             THEN IntervalPeakAnnouncement
             ELSE IF hour >= UKBusinessHoursStartHour
                     /\ hour < UKBusinessHoursEndHour
                     /\ weekday >= 1 /\ weekday <= 5
             THEN IntervalBusinessHours
             ELSE IF count > 0
             THEN IF backoffMinutes > IntervalOffPeak
                  THEN IntervalOffPeak ELSE backoffMinutes
             ELSE IntervalOffPeak

\* constants.go:166, the checkInterval NewSavingSessionMonitor starts with
\* (monitor.go:70), in minutes
MonitorDefaultCheckInterval == 15

\* config.go:41 and config.go:70-72: the check_interval_minutes of a
\* configuration that does not give one, or gives one that is not positive
ConfigDefaultCheckInterval == 10

\* config.go:69-76, the CheckInterval part
ApplyDefaults(CheckInterval) ==
    IF CheckInterval <= 0 THEN ConfigDefaultCheckInterval ELSE CheckInterval

\* main.go:78 and main.go:162-166: the checkInterval of the monitor that
\* main builds from a configuration whose check_interval_minutes is
\* configured, in minutes
mainCheckInterval(configured) ==
    IF ApplyDefaults(configured) > 0
       /\ ApplyDefaults(configured) # ConfigDefaultCheckInterval
    THEN ApplyDefaults(configured)
    ELSE MonitorDefaultCheckInterval

\* main.go:158-159: the useSmartIntervals of the monitor that main builds
mainSmartIntervals(noSmartIntervals, configNoSmartIntervals) ==
    ~(noSmartIntervals \/ configNoSmartIntervals)

\* variant: a find resets the counter but does not stamp the time
trackNewSessionsNoStamp(found, count, last, tnow) ==
    IF found THEN [count |-> 0, last |-> last]
    ELSE [count |-> count + 1, last |-> last]

\* variant: a find stamps the time but leaves the counter as it is
trackNewSessionsKeepsCount(found, count, last, tnow) ==
    IF found THEN [count |-> count, last |-> tnow]
    ELSE [count |-> count + 1, last |-> last]

\* monitor.go:220-234: the event-driven tracking at the end of a tick
trackNewSessions(found, count, last, tnow) ==
    IF found THEN [count |-> 0, last |-> tnow]
    ELSE [count |-> count + 1, last |-> last]

\* variant: a tick counts as a find only when both checks found something
foundNewSessionsBoth(savingFound, freeFound) == savingFound /\ freeFound

\* monitor.go:208-218: foundNewSessions after the two checks of a tick
foundNewSessions(savingFound, freeFound) == savingFound \/ freeFound

\* no Save so far
NoSave == [at |-> -1, outcome |-> "none", err |-> FALSE]

\* the state file does not exist
NoStateFile == [exists |-> FALSE]

\* a state file that os.WriteFile truncated and could not fill
TruncatedStateFile == [exists |-> TRUE, valid |-> FALSE]

\* what the operating system lets Save do: everything; no path to the file
\* (getStateFilePath fails, state.go:136-139); the file cannot be opened
\* for writing; the file is opened, and so truncated, but the write fails
\* (state.go:148-150)
SaveOutcomes == {"ok", "nopath", "noopen", "truncated"}

\* state.go:135-154.  app is the AppState that is marshalled, outcome what
\* the operating system lets Save do, file the state file before the call.
Save(app, lastUpdated, file, outcome, tnow) ==
    IF outcome = "nopath"
    THEN [err |-> TRUE, LastUpdated |-> lastUpdated, file |-> file]
    ELSE IF outcome = "noopen"
    THEN [err |-> TRUE, LastUpdated |-> tnow, file |-> file]
    ELSE IF outcome = "truncated"
    THEN [err |-> TRUE, LastUpdated |-> tnow, file |-> TruncatedStateFile]
    ELSE [err |-> FALSE, LastUpdated |-> tnow,
          file |-> [exists |-> TRUE, valid |-> TRUE,
                    state |-> app @@ [LastUpdated |-> tnow]]]

\* what a cached read did: the entry it found (had, its age and its value),
\* whether the remote side was asked, what the remote side had to give
\* (fetched), and what the read returned
ReadOf(kind, cache, got, fetched, tnow) ==
    [kind |-> kind, at |-> tnow, had |-> cache.set,
     age |-> IF cache.set THEN tnow - cache.Timestamp ELSE -1,
     stored |-> cache.Data, remote |-> got.remote, fetched |-> fetched,
     err |-> got.err, Data |-> got.Data]

\* monitor.go:205-240: one tick of the poll loop at instant t.  rest, pts
\* and joinRes are what the account endpoint, the points query and the join
\* calls give during the tick, feReply what the free-electricity endpoint
\* gives, outcome what the operating system lets the Save at the end do.
checkForNewSessions(t, rest, pts, joinRes, feReply, skew, outcome) ==
    /\ t > now
    /\ now' = t
    /\ LET ss == checkSavingSessions(rest.res, rest.body, pts, joinRes, t)
           fe == checkFreeElectricitySessions(feReply, t, skew)
           track == trackNewSessions(foundNewSessions(ss.found, fe.found),
                                     consecutiveEmptyChecks,
                                     lastNewSessionTime, t)
           saved == Save([AlertStates |-> fe.states,
                          KnownSessions |-> ss.known,
                          KnownFreeElectricitySessions |-> fe.known,
                          CachedSavingSessions |-> ss.cache,
                          CachedFreeElectricity |-> fe.cache],
                         LastUpdated, gStateFile, outcome, t)
           ssGot == GetSavingSessionsWithCache(CachedSavingSessions, rest.res,
                                               rest.body, pts, t)
           feGot == GetFreeElectricitySessionsWithCache(CachedFreeElectricity,
                                                        feReply, t)
           ssFetched == [ok |-> ~rest.res.err /\ rest.res.status = 200,
                         pointsErr |-> pts.err,
                         value |-> [JoinedEvents |-> rest.body,
                                    CurrentPointsInWallet |->
                                        IF pts.err THEN 0 ELSE pts.points]]
           feFetched == [ok |-> ~feReply.err /\ feReply.status = 200,
                         value |-> feReply.body]
       IN  /\ KnownSessions' = ss.known
           /\ CachedSavingSessions' = ss.cache
           /\ gJoinAttempts' = ss.attempts
           /\ gSessionLog' = ss.log
           /\ KnownFreeElectricitySessions' = fe.known
           /\ AlertStates' = fe.states
           /\ CachedFreeElectricity' = fe.cache
           /\ gEvalLog' = fe.log
           /\ gSkipped' = fe.skipped
           /\ gFireCount' = fe.fireCount
           /\ gRecWin' = fe.recWin
           /\ gScen' = fe.scen
           /\ consecutiveEmptyChecks' = track.count
           /\ lastNewSessionTime' = track.last
           /\ gSSRead' = ReadOf("saving", CachedSavingSessions, ssGot, ssFetched, t)
           /\ gFERead' = ReadOf("free", CachedFreeElectricity, feGot, feFetched, t)
           /\ LastUpdated' = saved.LastUpdated
           /\ gStateFile' = saved.file
           /\ gSave' = [at |-> t, outcome |-> outcome, err |-> saved.err]
    /\ UNCHANGED <<minPointsThreshold, trVars, authVars, paceVars, pureVars,
                   loopVars, webVars, cancelVars, jwtStateVars, fsVars>>

\* monitor.go:97-141 applied to one monitor at instant tnow
CallGetSmartInterval(useSmartIntervals, checkInterval, lastNew, count, tnow, loaded) ==
    /\ call' = [fn |-> "getSmartInterval",
                useSmartIntervals |-> useSmartIntervals,
                checkInterval |-> checkInterval,
                lastNewSessionTime |-> lastNew,
                consecutiveEmptyChecks |-> count,
                now |-> tnow, loaded |-> loaded]
    /\ ret' = [fn |-> "getSmartInterval",
               interval |-> getSmartInterval(useSmartIntervals, checkInterval,
                                             lastNew, count, tnow, loaded)]
    /\ UNCHANGED <<now, feVars, ssVars, trVars, tickVars, authVars, paceVars,
                   daemonVars>>

\* main.go:156-166 followed by the getSmartInterval of the loop
\* (monitor.go:174-175): the wait between two ticks of a monitor configured
\* with check_interval_minutes = configured, the flag -no-smart-intervals
\* and the setting no_smart_intervals
CallMain(configured, flag, setting, lastNew, count, tnow, loaded) ==
    /\ call' = [fn |-> "main",
                check_interval_minutes |-> configured,
                disabled |-> flag \/ setting,
                lastNewSessionTime |-> lastNew,
                consecutiveEmptyChecks |-> count,
                now |-> tnow, loaded |-> loaded]
    /\ ret' = [fn |-> "main",
               interval |-> getSmartInterval(mainSmartIntervals(flag, setting),
                                             mainCheckInterval(configured),
                                             lastNew, count, tnow, loaded)]
    /\ UNCHANGED <<now, feVars, ssVars, trVars, tickVars, authVars, paceVars,
                   daemonVars>>

\* state.go:158-160 applied at instant tnow
CallIsCacheValid(cacheTime, maxAge, tnow) ==
    /\ call' = [fn |-> "IsCacheValid", cacheTime |-> cacheTime,
                maxAge |-> maxAge, now |-> tnow]
    /\ ret' = [fn |-> "IsCacheValid",
               valid |-> IsCacheValid(cacheTime, maxAge, tnow)]
    /\ UNCHANGED <<now, feVars, ssVars, trVars, tickVars, authVars, paceVars,
                   daemonVars>>

(***************************************************************************)
(* The JWT token and the GraphQL query of the points (client.go)           *)
(***************************************************************************)
\* what the token endpoint answers to obtainKrakenToken: a connection
\* error, a status other than 200, or a 200 whose body is "undecodable",
\* carries "errors", or carries a token (0 when empty) and refreshExpiresIn
\* (seconds)
NoExchange == [err |-> FALSE, status |-> 0, body |-> "none", token |-> 0,
               refreshExpiresIn |-> 0]

\* variant: an exchange that fails drops the token at hand
refreshJWTTokenDropsOnFailure(token, expiry, t, xreply, xlat) ==
    IF expiry # -1 /\ expiry - t > JWTRefreshBuffer
    THEN [err |-> FALSE, token |-> token, expiry |-> expiry, sent |-> <<>>,
          done |-> t]
    ELSE LET sent == <<[kind |-> "token", at |-> t, token |-> token,
                        expiry |-> expiry]>>
         IN  IF xreply.err \/ xreply.status # 200 \/ xreply.body # "token"
                \/ xreply.token = 0
             THEN [err |-> TRUE, token |-> 0, expiry |-> -1,
                   sent |-> sent, done |-> t + xlat]
             ELSE [err |-> FALSE, token |-> xreply.token,
                   expiry |-> (t + xlat) + xreply.refreshExpiresIn * 10,
                   sent |-> sent, done |-> t + xlat]

\* client.go:462-556.  t is the instant of the call, xlat the time the
\* exchange takes; sent lists the outbound calls made, done is the instant
\* of the return.
refreshJWTToken(token, expiry, t, xreply, xlat) ==
    IF expiry # -1 /\ expiry - t > JWTRefreshBuffer
    THEN [err |-> FALSE, token |-> token, expiry |-> expiry, sent |-> <<>>,
          done |-> t]
    ELSE LET sent == <<[kind |-> "token", at |-> t, token |-> token,
                        expiry |-> expiry]>>
         IN  IF xreply.err \/ xreply.status # 200 \/ xreply.body # "token"
                \/ xreply.token = 0
             THEN [err |-> TRUE, token |-> token, expiry |-> expiry,
                   sent |-> sent, done |-> t + xlat]
             ELSE [err |-> FALSE, token |-> xreply.token,
                   expiry |-> (t + xlat) + xreply.refreshExpiresIn * 10,
                   sent |-> sent, done |-> t + xlat]

\* client.go:558-670.  qreply is what the GraphQL endpoint answers to the
\* query: a connection error, a status other than 200, or a 200 whose body
\* is "undecodable", carries "errors" with a message, or carries the ledger
\* ("points", "badpoints" when the balance is no integer, "noledger").
\* The debug line 602 slices the first 20 bytes of the token; tokens are
\* taken to be at least that long.
getOctoPointsGraphQL(token, expiry, t, xreply, xlat, qreply, qlat) ==
    LET r == refreshJWTToken(token, expiry, t, xreply, xlat)
        query == [kind |-> "query", at |-> r.done, token |-> r.token,
                  expiry |-> r.expiry]
        after == [token |-> r.token, expiry |-> r.expiry,
                  sent |-> Append(r.sent, query), done |-> r.done + qlat]
    IN  IF r.err
        THEN [err |-> TRUE, points |-> 0, token |-> r.token,
              expiry |-> r.expiry, sent |-> r.sent, done |-> r.done]
        ELSE IF qreply.err \/ qreply.status # 200
        THEN [err |-> TRUE, points |-> 0] @@ after
        ELSE IF qreply.body = "undecodable" \/ qreply.body = "errors"
                \/ qreply.body = "badpoints"
        THEN [err |-> TRUE, points |-> 0] @@ after
        ELSE IF qreply.body = "points"
        THEN [err |-> FALSE, points |-> qreply.points] @@ after
        ELSE [err |-> FALSE, points |-> 0] @@ after

\* the spacing the outbound calls sent[i..] leave, given the instant of the
\* call before them and the shortest spacing so far
RECURSIVE Pace(_, _, _, _)
Pace(last, gap, sent, i) ==
    IF i > Len(sent) THEN [last |-> last, gap |-> gap]
    ELSE LET g == Spacing(last, sent[i].at)
             shortest == IF gap = -1 THEN g
                         ELSE IF g = -1 THEN gap
                         ELSE IF g < gap THEN g ELSE gap
         IN  Pace(sent[i].at, shortest, sent, i + 1)

\* the instants, in tenths of a second, at which the poll loop wakes up
WakeInstants == {0, 3000, 6000}

\* one call of getOctoPointsGraphQL by the poll loop
GetOctoPoints(xreply, xlat, qreply, qlat) ==
    /\ rpc = "idle"
    /\ \E g \in WakeInstants : clock - g \in 0..MaxBusy
    /\ LET r == getOctoPointsGraphQL(jwtToken, jwtExpiry, clock, xreply, xlat,
                                     qreply, qlat)
           p == Pace(gLastSent, -1, r.sent, 1)
       IN  /\ jwtToken' = r.token
           /\ jwtExpiry' = r.expiry
           /\ gOutbound' = r.sent
           /\ clock' = r.done
           /\ gLastSent' = p.last
           /\ gGap' = p.gap
           /\ call' = [fn |-> "getOctoPointsGraphQL", exchange |-> xreply,
                       query |-> qreply]
           /\ ret' = [fn |-> "getOctoPointsGraphQL", err |-> r.err,
                      points |-> r.points]
           \* client.go:553: a token exchange that succeeded ends with
           \* saveJWTToState (client.go:104-110), and only then is the
           \* query sent
           /\ IF Len(r.sent) = 2
              THEN /\ JWTToken' = r.token
                   /\ JWTTokenExpiry' = r.expiry
              ELSE UNCHANGED <<JWTToken, JWTTokenExpiry>>
    /\ UNCHANGED <<rpc, attempt, result, lastRequestTime, gAttempts, gLastReply,
                   gAllRetryable, now, feVars, ssVars, tickVars, saveVars,
                   loopVars, webVars, cancelVars, gInvalidated, fsVars>>

\* one call of refreshJWTToken (client.go:462-556) by the client, with
\* saveJWTToState (client.go:104-110) at the end of an exchange that
\* succeeded
RefreshJWTToken(xreply, xlat) ==
    /\ rpc = "idle"
    /\ \E g \in WakeInstants : clock - g \in 0..MaxBusy
    /\ LET r == refreshJWTToken(jwtToken, jwtExpiry, clock, xreply, xlat)
       IN  /\ jwtToken' = r.token
           /\ jwtExpiry' = r.expiry
           /\ gOutbound' = r.sent
           /\ clock' = r.done
           /\ call' = [fn |-> "refreshJWTToken", exchange |-> xreply,
                       at |-> clock,
                       before |-> [jwtToken |-> jwtToken,
                                   jwtExpiry |-> jwtExpiry,
                                   JWTToken |-> JWTToken,
                                   JWTTokenExpiry |-> JWTTokenExpiry]]
           /\ ret' = [fn |-> "refreshJWTToken", err |-> r.err]
           /\ IF r.sent # <<>> /\ ~r.err
              THEN /\ JWTToken' = r.token
                   /\ JWTTokenExpiry' = r.expiry
              ELSE UNCHANGED <<JWTToken, JWTTokenExpiry>>
    /\ UNCHANGED <<rpc, attempt, result, lastRequestTime, gAttempts, gLastReply,
                   gAllRetryable, now, feVars, ssVars, tickVars, paceVars,
                   saveVars, loopVars, webVars, cancelVars, gInvalidated,
                   fsVars>>

\* variant: only the client's copy is cleared
invalidateJWTTokenClientOnly(stateToken, stateExpiry) == [jwtToken |-> 0, jwtExpiry |-> -1, JWTToken |-> stateToken, JWTTokenExpiry |-> stateExpiry]

\* invalidateJWTToken, of which the source holds the test only
\* (client_test.go:122-153): the token and the expiry of the client and of
\* the attached state after the call
invalidateJWTToken(stateToken, stateExpiry) == [jwtToken |-> 0, jwtExpiry |-> -1, JWTToken |-> 0, JWTTokenExpiry |-> -1]

\* the client drops its credential between two operations
InvalidateJWTToken ==
    /\ rpc = "idle"
    /\ LET r == invalidateJWTToken(JWTToken, JWTTokenExpiry)
       IN  /\ jwtToken' = r.jwtToken
           /\ jwtExpiry' = r.jwtExpiry
           /\ JWTToken' = r.JWTToken
           /\ JWTTokenExpiry' = r.JWTTokenExpiry
    /\ gInvalidated' = [at |-> clock, token |-> jwtToken, expiry |-> jwtExpiry]
    /\ call' = [fn |-> "invalidateJWTToken"]
    /\ ret' = [fn |-> "invalidateJWTToken"]
    /\ UNCHANGED <<rpc, attempt, result, clock, lastRequestTime, gAttempts,
                   gLastReply, gAllRetryable, now, feVars, ssVars, tickVars,
                   gOutbound, paceVars, saveVars, loopVars, webVars,
                   cancelVars, fsVars>>

\* the client is idle until the poll loop wakes up at instant t
Idle(t) ==
    /\ rpc = "idle"
    /\ t > clock
    /\ clock' = t
    /\ UNCHANGED <<rpc, attempt, result, lastRequestTime, gAttempts, gLastReply,
                   gAllRetryable, now, feVars, ssVars, tickVars, authVars,
                   paceVars, pureVars, daemonVars>>

(***************************************************************************)
(* The state file (state.go) and the start of a process (monitor.go:47-77) *)
(***************************************************************************)
\* the accounts of two users of the same home directory
AccountIDs == {"A-1A2B3C4D", "A-5E6F7A8B"}

\* variant: one file for every account
getStateFilePathShared(accountID) == "state_" \o ".json"

\* state.go:83-96: the file name inside ~/.config/octojoin
getStateFilePath(accountID) == "state_" \o accountID \o ".json"

StatePaths == {getStateFilePath(a) : a \in AccountIDs}

\* a key of the JSON document that is missing or null, and one with a value
Absent == [has |-> FALSE]

Field(v) == [has |-> TRUE, v |-> v]

\* state.go:66-81, 146: json.MarshalIndent of an AppState.  The integer
\* keys of KnownSessions are written as decimal strings, an alert record as
\* an object with its Code and its five flags; jwt_token and the cache
\* entries are left out when empty (omitempty).
MarshalIndent(s) ==
    [alert_states |->
        Field([c \in DOMAIN s.AlertStates |->
                 [Code |-> c] @@ [st \in Stages |-> s.AlertStates[c][st]]]),
     known_sessions |-> Field({ToString(i) : i \in s.KnownSessions}),
     known_free_electricity_sessions |-> Field(s.KnownFreeElectricitySessions),
     cached_saving_sessions |->
        IF s.CachedSavingSessions.set THEN Field(s.CachedSavingSessions)
        ELSE Absent,
     cached_free_electricity |->
        IF s.CachedFreeElectricity.set THEN Field(s.CachedFreeElectricity)
        ELSE Absent,
     jwt_token |-> IF s.JWTToken = 0 THEN Absent ELSE Field(s.JWTToken),
     jwt_token_expiry |-> Field(s.JWTTokenExpiry),
     last_updated |-> Field(s.LastUpdated)]

\* the AppState of "var state AppState": every map nil, every field zero
ZeroAppState ==
    [nil |-> {"AlertStates", "KnownSessions", "KnownFreeElectricitySessions"},
     AlertStates |-> [c \in {} |-> NewAlertState],
     KnownSessions |-> {},
     KnownFreeElectricitySessions |-> {},
     CachedSavingSessions |-> NoSavingSessionsCache,
     CachedFreeElectricity |-> NoFreeElectricityCache,
     JWTToken |-> 0,
     JWTTokenExpiry |-> ZeroTime,
     LastUpdated |-> ZeroTime]

\* state.go:119-122: json.Unmarshal into a zero AppState.  A key that is
\* missing or null leaves its field as it is; the keys of known_sessions
\* are parsed back to integers.  nil lists the maps that are nil.
Unmarshal(doc) ==
    [nil |-> {n \in {"AlertStates"} : ~doc.alert_states.has}
             \cup {n \in {"KnownSessions"} : ~doc.known_sessions.has}
             \cup {n \in {"KnownFreeElectricitySessions"} :
                       ~doc.known_free_electricity_sessions.has},
     AlertStates |->
        IF doc.alert_states.has
        THEN [c \in DOMAIN doc.alert_states.v |->
                 [st \in Stages |-> doc.alert_states.v[c][st]]]
        ELSE ZeroAppState.AlertStates,
     KnownSessions |->
        IF doc.known_sessions.has
        THEN {i \in SessionIDs : ToString(i) \in doc.known_sessions.v}
        ELSE {},
     KnownFreeElectricitySessions |->
        IF doc.known_free_electricity_sessions.has
        THEN doc.known_free_electricity_sessions.v
        ELSE {},
     CachedSavingSessions |->
        IF doc.cached_saving_sessions.has THEN doc.cached_saving_sessions.v
        ELSE NoSavingSessionsCache,
     CachedFreeElectricity |->
        IF doc.cached_free_electricity.has THEN doc.cached_free_electricity.v
        ELSE NoFreeElectricityCache,
     JWTToken |-> IF doc.jwt_token.has THEN doc.jwt_token.v ELSE 0,
     JWTTokenExpiry |->
        IF doc.jwt_token_expiry.has THEN doc.jwt_token_expiry.v ELSE ZeroTime,
     LastUpdated |->
        IF doc.last_updated.has THEN doc.last_updated.v ELSE ZeroTime]

\* what the operating system lets LoadState do: everything; no path to the
\* file (state.go:99-102); the file is there and cannot be read
\* (state.go:114-117)
LoadOutcomes == {"ok", "nopath", "noread"}

\* variant: the maps a document lacks stay nil
LoadStateKeepNil(accountID, files, outcome, tnow) == IF outcome = "nopath" \/ (files[getStateFilePath(accountID)].exists /\ (outcome = "noread" \/ ~files[getStateFilePath(accountID)].valid)) THEN [err |-> TRUE, state |-> ZeroAppState] ELSE IF ~files[getStateFilePath(accountID)].exists THEN [err |-> FALSE, state |-> [ZeroAppState EXCEPT !.nil = {}, !.LastUpdated = tnow]] ELSE [err |-> FALSE, state |-> Unmarshal(files[getStateFilePath(accountID)].doc)]

\* state.go:98-136
LoadState(accountID, files, outcome, tnow) ==
    LET file == files[getStateFilePath(accountID)]
    IN  IF outcome = "nopath"
        THEN [err |-> TRUE, state |-> ZeroAppState]
        ELSE IF ~file.exists
        THEN [err |-> FALSE,
              state |-> [ZeroAppState EXCEPT !.nil = {}, !.LastUpdated = tnow]]
        ELSE IF outcome = "noread" \/ ~file.valid
        THEN [err |-> TRUE, state |-> ZeroAppState]
        ELSE [err |-> FALSE,
              state |-> [Unmarshal(file.doc) EXCEPT !.nil = {}]]

\* variant: a record is removed from seven days on
CleanupExpiredSessionsFrom(s, tnow) == [s EXCEPT !.AlertStates = [c \in {d \in DOMAIN s.AlertStates : ~(Since(s.LastUpdated, tnow) >= StateCleanupAge)} |-> s.AlertStates[c]]]

\* state.go:162-170
CleanupExpiredSessions(s, tnow) == [s EXCEPT !.AlertStates = [c \in {d \in DOMAIN s.AlertStates : ~(Since(s.LastUpdated, tnow) > StateCleanupAge)} |-> s.AlertStates[c]]]

\* monitor.go:47-63 and client.go:91-102: the state a new monitor works
\* on, and the token the client takes from it
NewSavingSessionMonitor(accountID, files, outcome, tnow) ==
    LET loaded == LoadState(accountID, files, outcome, tnow)
        state == IF loaded.err THEN [ZeroAppState EXCEPT !.nil = {}]
                 ELSE loaded.state
        swept == CleanupExpiredSessions(state, tnow)
    IN  [loaded |-> loaded, before |-> state, state |-> swept,
         jwtToken |-> swept.JWTToken,
         jwtExpiry |-> IF swept.JWTToken # 0 THEN swept.JWTTokenExpiry ELSE -1]

NoneSaved == [kind |-> "none", app |-> ZeroAppState]

\* monitor.go:236-239: a process of the account ends a tick with the state
\* app and saves it
SaveAs(accountID, app, outcome) ==
    LET path == getStateFilePath(accountID)
        old == stateFiles[path]
        saved == Save([app EXCEPT !.LastUpdated = now], app.LastUpdated,
                      NoStateFile, outcome, now)
    IN  /\ stateFiles' =
              [stateFiles EXCEPT
                 ![path] = IF outcome \in {"nopath", "noopen"} THEN old
                           ELSE IF ~saved.file.valid THEN TruncatedStateFile
                           ELSE [exists |-> TRUE, valid |-> TRUE,
                                 doc |-> MarshalIndent(saved.file.state)]]
        /\ gSaved' =
              [gSaved EXCEPT
                 ![accountID] = IF outcome \in {"nopath", "noopen"} THEN @
                                ELSE IF saved.err
                                THEN [kind |-> "destroyed", app |-> ZeroAppState]
                                ELSE [kind |-> "saved", app |-> saved.file.state]]
    /\ UNCHANGED <<now, feVars, ssVars, trVars, tickVars, authVars, paceVars,
                   pureVars, saveVars, loopVars, webVars, cancelVars,
                   jwtStateVars>>

\* the state file of the account was left by an earlier release of the
\* program, or edited by hand: doc is what it holds
OlderFile(accountID, doc) ==
    /\ ~stateFiles[getStateFilePath(accountID)].exists
    /\ stateFiles' = [stateFiles EXCEPT
                        ![getStateFilePath(accountID)] =
                            [exists |-> TRUE, valid |-> TRUE, doc |-> doc]]
    /\ gSaved' = [gSaved EXCEPT
                    ![accountID] = [kind |-> "older", app |-> ZeroAppState]]
    /\ UNCHANGED <<now, feVars, ssVars, trVars, tickVars, authVars, paceVars,
                   pureVars, saveVars, loopVars, webVars, cancelVars,
                   jwtStateVars>>

\* monitor.go:47-77: a process starts for the account
StartMonitor(accountID, outcome) ==
    LET m == NewSavingSessionMonitor(accountID, stateFiles, outcome, now)
    IN  /\ AlertStates' = m.state.AlertStates
        /\ KnownSessions' = m.state.KnownSessions
        /\ KnownFreeElectricitySessions' = m.state.KnownFreeElectricitySessions
        /\ CachedSavingSessions' = m.state.CachedSavingSessions
        /\ CachedFreeElectricity' = m.state.CachedFreeElectricity
        /\ JWTToken' = m.state.JWTToken
        /\ JWTTokenExpiry' = m.state.JWTTokenExpiry
        /\ LastUpdated' = m.state.LastUpdated
        /\ jwtToken' = m.jwtToken
        /\ jwtExpiry' = m.jwtExpiry
        /\ call' = [fn |-> "NewSavingSessionMonitor", accountID |-> accountID,
                    outcome |-> outcome]
        /\ ret' = [fn |-> "NewSavingSessionMonitor", loaded |-> m.loaded,
                   before |-> m.before, state |-> m.state]
    /\ UNCHANGED <<now, minPointsThreshold, gJoinAttempts, gSessionLog,
                   gEvalLog, gSkipped, gFireCount, gRecWin, gScen, trVars,
                   tickVars, gOutbound, paceVars, gStateFile, gSave, loopVars,
                   webVars, cancelVars, gInvalidated, fsVars>>

(***************************************************************************)
(* Initial state and specifications                                        *)
(***************************************************************************)
Thresholds == {0, 100}

\* the state of a fresh process: LoadState without a state file
\* (state.go:105-111), NewSavingSessionMonitor, NewOctopusClient
Init ==
    /\ now = 0
    /\ minPointsThreshold \in Thresholds
    /\ KnownSessions = {}
    /\ CachedSavingSessions = NoSavingSessionsCache
    /\ KnownFreeElectricitySessions = {}
    /\ AlertStates = [c \in {} |-> NewAlertState]
    /\ CachedFreeElectricity = NoFreeElectricityCache
    /\ gJoinAttempts = [i \in SessionIDs |-> 0]
    /\ gSessionLog = <<>>
    /\ gEvalLog = <<>>
    /\ gSkipped = <<>>
    /\ gFireCount = [c \in Codes |-> ZeroCount]
    /\ gRecWin = [c \in Codes |-> NoWin]
    /\ gScen = [c \in Codes |-> 0]
    /\ rpc = "idle"
    /\ attempt = 0
    /\ result = Response(0)
    /\ clock = 0
    /\ lastRequestTime = -1
    /\ gAttempts = 0
    /\ gLastReply = NoReply
    /\ gAllRetryable = TRUE
    /\ consecutiveEmptyChecks = 0
    /\ lastNewSessionTime = -1
    /\ gSSRead = NoRead
    /\ gFERead = NoRead
    /\ jwtToken = 0
    /\ jwtExpiry = -1
    /\ gOutbound = <<>>
    /\ gLastSent = -1
    /\ gGap = -1
    /\ call = NoCall
    /\ ret = NoCall
    /\ LastUpdated = 0
    /\ gStateFile = NoStateFile
    /\ gSave = NoSave
    /\ pcLoop = "waiting"
    /\ foundSaving = FALSE
    /\ pcWeb = "idle"
    /\ CachedUsageMeasurements = FALSE
    /\ gStoredBy = [saving |-> "none", free |-> "none"]
    /\ stopCh = FALSE
    /\ ctxDone = FALSE
    /\ gSignal = [at |-> -1, pc |-> "none"]
    /\ gReturn = "none"
    /\ exited = FALSE
    /\ JWTToken = 0
    /\ JWTTokenExpiry = -1
    /\ gInvalidated = [at |-> -1, token |-> 0, expiry |-> -1]
    /\ stateFiles = [p \in StatePaths |-> NoStateFile]
    /\ gSaved = [a \in AccountIDs |-> NoneSaved]

\* --- the free-electricity feed and the instants of the ticks
Window1 == [StartAt |-> T0 + 1800, EndAt |-> T0 + 1860]

Window2 == [StartAt |-> T0 + 1920, EndAt |-> T0 + 1980]

FreeElectricitySessions ==
    {[Code |-> "A", StartAt |-> Window1.StartAt, EndAt |-> Window1.EndAt],
     [Code |-> "A", StartAt |-> Window2.StartAt, EndAt |-> Window2.EndAt]}

AlertTimes ==
    {T0 + x : x \in {0, 360, 600, 1200, 1500, 1785, 1790, 1800, 1830, 1860,
                     1870}}

FreeElectricityReplies ==
    {[err |-> TRUE, status |-> 0, body |-> <<>>],
     [err |-> FALSE, status |-> 500, body |-> <<>>]}
    \cup {[err |-> FALSE, status |-> 200, body |-> l] :
            l \in SeqsUpTo(FreeElectricitySessions, MaxFEList)}

NoFreeReply == [err |-> TRUE, status |-> 0, body |-> <<>>]

FreeElectricityFresh(t) ==
    /\ CachedFreeElectricity.set
    /\ IsCacheValid(CachedFreeElectricity.Timestamp, FreeElectricityCacheAge, t)

\* monitor.go:384-389: a session that has ended is skipped, the others are
\* handed to shouldAlert
Evaluated(list, t) == \E i \in 1..Len(list) : ~(list[i].EndAt < t)

\* The endpoint is asked only when the cached entry is stale, and the clock
\* of shouldAlert is read only when there is a session to evaluate: the
\* answers and delays nobody reads are not enumerated.
NextAlert ==
    \E t \in AlertTimes :
      \E reply \in (IF FreeElectricityFresh(t) THEN {NoFreeReply}
                    ELSE FreeElectricityReplies) :
        \E skew \in (IF Evaluated(GetFreeElectricitySessionsWithCache(
                                     CachedFreeElectricity, reply, t).Data, t)
                     THEN 0..MaxSkew ELSE {0}) :
          CheckFreeElectricity(t, reply, skew)

\* the same start with the threshold at its default (LoadConfig, config.go:40)
InitDefault ==
    /\ Init
    /\ minPointsThreshold = 0

SpecAlert == InitDefault /\ [][NextAlert]_vars

\* --- the saving-session feed and the instants of the ticks
SavingSessions ==
    {[EventID |-> 1, StartAt |-> T0 + 180, EndAt |-> T0 + 240, OctoPoints |-> 150],
     [EventID |-> 1, StartAt |-> T0 + 180, EndAt |-> T0 + 240, OctoPoints |-> 50],
     [EventID |-> 2, StartAt |-> T0 + 180, EndAt |-> T0 + 240, OctoPoints |-> 100]}

JoinTimes == {T0, T0 + 3, T0 + 5, T0 + 180, T0 + 200}

NoRest == [res |-> ErrResult, body |-> <<>>]

RestReplies ==
    {NoRest, [res |-> Response(503), body |-> <<>>]}
    \cup {[res |-> Response(200), body |-> l] :
            l \in SeqsUpTo(SavingSessions, MaxList)}

NoPoints == [err |-> TRUE, points |-> 0]

PointsReplies == {NoPoints, [err |-> FALSE, points |-> 200]}

JoinResults == {ErrResult, Response(201), Response(503)}

\* The server is asked only when the cached entry is stale, the points only
\* when the list arrived, and a join only for an identifier not yet known:
\* the answers nobody reads are not enumerated.
SavingSessionsFresh(t) ==
    /\ CachedSavingSessions.set
    /\ IsCacheValid(CachedSavingSessions.Timestamp, SavingSessionsCacheAge, t)

NextJoin ==
    \E t \in JoinTimes :
      \E rest \in (IF SavingSessionsFresh(t) THEN {NoRest} ELSE RestReplies) :
        \E pts \in (IF getSavingSessionsREST(rest.res, rest.body).err
                     THEN {NoPoints} ELSE PointsReplies) :
          \E joinRes \in {f \in [SessionIDs -> JoinResults] :
                            \A i \in KnownSessions : f[i] = Response(201)} :
            CheckSavingSessions(t, rest.res, rest.body, pts, joinRes)

SpecJoin == Init /\ [][NextJoin]_vars

\* --- the server as the transport sees it
Statuses == {200, 201, 400, 401, 403, 404, 429, 500, 502, 503, 504}

Headers == {NoHeader, [kind |-> "text", seconds |-> 0], [kind |-> "int", seconds |-> 2]}

Replies ==
    {ConnError} \cup {Answer(s, NoHeader) : s \in Statuses}
    \cup {Answer(s, h) : s \in {429, 503}, h \in Headers}

NextTransport ==
    \/ StartRequest
    \/ Elapse
    \/ \E reply \in Replies, latency \in 0..MaxLatency, jitter \in JitterDraws(attempt) :
          Attempt(reply, latency, jitter)
    \/ RequestNotBuilt
    \/ Return

SpecTransport == InitDefault /\ [][NextTransport]_vars

\* --- every status code an HTTP answer may carry
StatusCodes == 100..599

NextClassify == \E statusCode \in StatusCodes : Classify(statusCode)

SpecClassify == InitDefault /\ [][NextClassify]_vars

\* --- the token endpoint and the GraphQL endpoint
ExchangeReplies ==
    {[NoExchange EXCEPT !.err = TRUE],
     [NoExchange EXCEPT !.status = 500],
     [NoExchange EXCEPT !.status = 200, !.body = "errors"],
     [NoExchange EXCEPT !.status = 200, !.body = "token"]}
    \cup {[NoExchange EXCEPT !.status = 200, !.body = "token", !.token = k,
                             !.refreshExpiresIn = v] :
             k \in {1}, v \in {0, 300, 600}}

NoQuery == [err |-> FALSE, status |-> 0, body |-> "none", message |-> "",
            points |-> 0]

QueryReplies ==
    {[NoQuery EXCEPT !.err = TRUE],
     [NoQuery EXCEPT !.status = 401],
     [NoQuery EXCEPT !.status = 403],
     [NoQuery EXCEPT !.status = 500],
     [NoQuery EXCEPT !.status = 200, !.body = "errors", !.message = "other"],
     [NoQuery EXCEPT !.status = 200, !.body = "errors", !.message = "KT-CT-1139"],
     [NoQuery EXCEPT !.status = 200, !.body = "errors", !.message = "KT-CT-1143"],
     [NoQuery EXCEPT !.status = 200, !.body = "noledger"],
     [NoQuery EXCEPT !.status = 200, !.body = "points", !.points = 200]}

\* The token endpoint is asked only when the stored token is not kept, the
\* GraphQL endpoint only when a token is at hand: the answers nobody reads
\* are not enumerated.
NextAuth ==
    \/ \E t \in WakeInstants : Idle(t)
    \/ \E xlat \in 0..MaxLatency, qlat \in 0..MaxLatency :
         \E xreply \in (IF refreshJWTToken(jwtToken, jwtExpiry, clock,
                                           NoExchange, 0).sent = <<>>
                        THEN {NoExchange} ELSE ExchangeReplies) :
           \E qreply \in (IF refreshJWTToken(jwtToken, jwtExpiry, clock,
                                             xreply, xlat).err
                          THEN {NoQuery} ELSE QueryReplies) :
             /\ (xreply = NoExchange => xlat = 0)
             /\ (qreply = NoQuery => qlat = 0)
             /\ GetOctoPoints(xreply, xlat, qreply, qlat)

SpecAuth == InitDefault /\ [][NextAuth]_vars

\* --- the credential over three wake-ups of the poll loop, with answers
\* that come at once: the exchange fails or hands out a token good for 5
\* or 10 minutes, the query is answered or refused; the credential is
\* dropped between two operations
CredentialExchanges ==
    {[NoExchange EXCEPT !.err = TRUE]}
    \cup {[NoExchange EXCEPT !.status = 200, !.body = "token", !.token = 1,
                             !.refreshExpiresIn = v] : v \in {300, 600}}

CredentialQueries ==
    {[NoQuery EXCEPT !.status = 401],
     [NoQuery EXCEPT !.status = 200, !.body = "points", !.points = 200]}

NextCredential ==
    \/ \E t \in WakeInstants : Idle(t)
    \/ \E xreply \in (IF refreshJWTToken(jwtToken, jwtExpiry, clock,
                                         NoExchange, 0).sent = <<>>
                      THEN {NoExchange} ELSE CredentialExchanges) :
         \E qreply \in (IF refreshJWTToken(jwtToken, jwtExpiry, clock,
                                           xreply, 0).err
                        THEN {NoQuery} ELSE CredentialQueries) :
           GetOctoPoints(xreply, 0, qreply, 0)
    \/ InvalidateJWTToken

SpecCredential == InitDefault /\ [][NextCredential]_vars

\* --- refreshJWTToken on its own over three wake-ups, with every answer
\* of the token endpoint
NextRefresh ==
    \/ \E t \in WakeInstants : Idle(t)
    \/ \E xlat \in 0..MaxLatency :
         \E xreply \in (IF refreshJWTToken(jwtToken, jwtExpiry, clock,
                                           NoExchange, 0).sent = <<>>
                        THEN {NoExchange} ELSE ExchangeReplies) :
           /\ (xreply = NoExchange => xlat = 0)
           /\ RefreshJWTToken(xreply, xlat)

SpecRefresh == InitDefault /\ [][NextRefresh]_vars

\* --- timestamps and ages handed to IsCacheValid: ages around each maxAge,
\* the zero time, timestamps ahead of now, differences that do not fit a
\* Duration
ValidityInstants == {T0, T0 + 7}

MaxAges == {0 - 5, 0, 1, 5, 10, 30, 120, 4320, MaxDuration}

CacheTimes(tnow) ==
    {ZeroTime, tnow - MaxDuration - 1, tnow - MaxDuration, tnow + MaxDuration + 1}
    \cup {tnow - a : a \in {0 - 6, 0 - 5, 0 - 4, 0 - 1, 0, 1, 4, 5, 6, 9, 10, 11, 29,
                             30, 31, 119, 120, 121, 4320}}

NextValid ==
    \E tnow \in ValidityInstants, maxAge \in MaxAges :
        \E cacheTime \in CacheTimes(tnow) : CallIsCacheValid(cacheTime, maxAge, tnow)

SpecValid == InitDefault /\ [][NextValid]_vars

\* --- the instants, in UTC, at which getSmartInterval is asked: every day
\* of a week of January and of a week of July, around every boundary hour
SampleHours == {0, 7, 8, 9, 12, 13, 14, 15, 16, 17, 18, 22, 23}

SampleWeeks == {7 * 1440, 182 * 1440}

SampleInstants ==
    {week + d * 1440 + h * 60 + m - 835 :
        week \in SampleWeeks, d \in 0..6, h \in SampleHours, m \in {0, 59}}

\* the largest consecutiveEmptyChecks handed to getSmartInterval
MaxEmptyChecks == 4

\* the check_interval_minutes of the configurations: none given (0), and
\* values around the two defaults
ConfiguredIntervals == {0, 1, 5, 9, 10, 11, 15, 30, 60}

\* the instants at which a configured monitor is asked: the sample hours of
\* a Wednesday and of a Saturday of January
ConfiguredInstants ==
    {7 * 1440 + d * 1440 + h * 60 - 835 : d \in {2, 5}, h \in SampleHours}

\* one application per run
NextInterval ==
    \/ \E tnow \in SampleInstants, count \in 0..MaxEmptyChecks,
          loaded \in BOOLEAN :
         \E lastNew \in {-1, tnow, tnow - 29, tnow - 30, tnow - 31} :
           /\ call = NoCall
           /\ (~loaded => tnow >= BSTStart)
           /\ CallGetSmartInterval(TRUE, 10, lastNew, count, tnow, loaded)
    \/ \E checkInterval \in {1, 10, 60} :
         /\ call = NoCall
         /\ CallGetSmartInterval(FALSE, checkInterval, -1, 0, 7 * 1440, TRUE)
    \/ \E configured \in ConfiguredIntervals, flag \in BOOLEAN,
          setting \in BOOLEAN, tnow \in ConfiguredInstants,
          count \in {0, MaxEmptyChecks} :
         \E lastNew \in {-1, tnow} :
           /\ call = NoCall
           /\ CallMain(configured, flag, setting, lastNew, count, tnow, TRUE)

SpecInterval == InitDefault /\ [][NextInterval]_vars

\* --- the ticks of one afternoon: 14:05, 14:08, 14:12, 14:17, 14:20
TickTimes == {T0, T0 + 3, T0 + 7, T0 + 12, T0 + 15}

TickLists ==
    {l \in SeqsUpTo(SavingSessions, MaxList) :
        /\ \A i \in 1..Len(l) : l[i].OctoPoints >= 100
        /\ \A i \in 1..Len(l) - 1 : l[i].EventID < l[i + 1].EventID}

TickRestReplies ==
    {NoRest, [res |-> Response(503), body |-> <<>>]}
    \cup {[res |-> Response(200), body |-> l] : l \in TickLists}

TickFreeReplies ==
    {NoFreeReply}
    \cup {[err |-> FALSE, status |-> 200, body |-> l] :
            l \in {m \in SeqsUpTo(FreeElectricitySessions, MaxFEList) :
                     \A i \in 1..Len(m) : m[i].StartAt = Window1.StartAt}}

\* As in NextJoin, the answers nobody reads are not enumerated; the joins
\* of one tick all succeed or all fail.
NextTick ==
    \E t \in TickTimes :
      \E rest \in (IF SavingSessionsFresh(t) THEN {NoRest} ELSE TickRestReplies),
         feReply \in (IF FreeElectricityFresh(t) THEN {NoFreeReply}
                      ELSE TickFreeReplies) :
        \E pts \in (IF getSavingSessionsREST(rest.res, rest.body).err
                     THEN {NoPoints} ELSE PointsReplies) :
          \E joinRes \in {[i \in SessionIDs |-> r] :
                            r \in (IF \E i \in 1..Len(rest.body) :
                                        rest.body[i].EventID \notin KnownSessions
                                   THEN {Response(201), ErrResult}
                                   ELSE {Response(201)})} :
            checkForNewSessions(t, rest, pts, joinRes, feReply, 0, "ok")

SpecTick == InitDefault /\ [][NextTick]_vars

\* --- ticks within and at the freshness duration of the saving
\* sessions, 14:05, 14:09, 14:10 and 14:14, with the points query answered or
\* failing and the free-electricity endpoint down
PointsInstants == {T0, T0 + 4, T0 + 5, T0 + 9}

PointsRestReplies == {r \in TickRestReplies : Len(r.body) <= 1}

NextPoints ==
    \E t \in PointsInstants :
      \E rest \in (IF SavingSessionsFresh(t) THEN {NoRest}
                   ELSE PointsRestReplies) :
        \E pts \in (IF getSavingSessionsREST(rest.res, rest.body).err
                     THEN {NoPoints} ELSE PointsReplies) :
          checkForNewSessions(t, rest, pts, [i \in SessionIDs |-> Response(201)],
                              NoFreeReply, 0, "ok")

SpecPoints == InitDefault /\ [][NextPoints]_vars

\* --- the poll loop of StartWithContext (monitor.go:168-198) with smart
\* scheduling: the first tick when the process starts, on a Monday at 14:05
\* or at 19:05 or on a Saturday at 14:05, and each later tick when the timer
\* set to getSmartInterval after the tick before it fires
StartInstants == {T0, T0 + 300, T0 + 7200}

\* the minutes a process is followed for after its start
MaxRun == 20

ScheduledTick(start, rest, pts) ==
    LET t == IF gSave.at = -1 THEN start
             ELSE now + getSmartInterval(TRUE, MonitorDefaultCheckInterval,
                                         lastNewSessionTime,
                                         consecutiveEmptyChecks, now, TRUE)
    IN  /\ \E s \in StartInstants : t \in s..(s + MaxRun)
        /\ checkForNewSessions(t, rest, pts,
                               [i \in SessionIDs |-> Response(201)],
                               NoFreeReply, 0, "ok")

NextSchedule ==
    \E start \in (IF gSave.at = -1 THEN StartInstants ELSE {now}),
       rest \in PointsRestReplies :
      \E pts \in (IF getSavingSessionsREST(rest.res, rest.body).err
                   THEN {NoPoints} ELSE PointsReplies) :
        ScheduledTick(start, rest, pts)

SpecSchedule == InitDefault /\ [][NextSchedule]_vars

\* --- two ticks of the same afternoon, 14:05 and 14:17, each with every
\* outcome of the Save at its end
PartialTimes == {T0, T0 + 12}

NextPartial ==
    \E t \in PartialTimes :
      \E rest \in (IF SavingSessionsFresh(t) THEN {NoRest} ELSE TickRestReplies),
         feReply \in (IF FreeElectricityFresh(t) THEN {NoFreeReply}
                      ELSE TickFreeReplies) :
        \E pts \in (IF getSavingSessionsREST(rest.res, rest.body).err
                     THEN {NoPoints} ELSE PointsReplies) :
          \E joinRes \in {[i \in SessionIDs |-> r] :
                            r \in (IF \E i \in 1..Len(rest.body) :
                                        rest.body[i].EventID \notin KnownSessions
                                   THEN {Response(201), ErrResult}
                                   ELSE {Response(201)})} :
            \E outcome \in SaveOutcomes :
              checkForNewSessions(t, rest, pts, joinRes, feReply, 0, outcome)

SpecPartial == InitDefault /\ [][NextPartial]_vars

(***************************************************************************)
(* The poll loop and the web server as two goroutines (monitor.go:159-166, *)
(* net/http serves every request in a goroutine of its own).  No lock is   *)
(* taken anywhere in the program, so the steps of the two interleave at    *)
(* every outbound call: a cached read is one step up to the call and one   *)
(* step from its answer on.                                                *)
(***************************************************************************)
\* client.go:367-438 and 683-714: what a cached read does from the answer of
\* the remote side on; the entry is not looked at again
storeSavingSessions(cache, rest, pts, tnow) ==
    LET got == GetSavingSessionsWithCache(NoSavingSessionsCache, rest.res,
                                          rest.body, pts, tnow)
    IN  [err |-> got.err, Data |-> got.Data,
         cache |-> IF got.err THEN cache ELSE got.cache]

storeFreeElectricity(cache, reply, tnow) ==
    LET got == GetFreeElectricitySessionsWithCache(NoFreeElectricityCache,
                                                   reply, tnow)
    IN  [err |-> got.err, Data |-> got.Data,
         cache |-> IF got.err THEN cache ELSE got.cache]

\* monitor.go:249-372: checkSavingSessions from the list on
processSavingSessions(list, joinRes, tnow) ==
    ssLoop([known |-> KnownSessions, found |-> FALSE,
            attempts |-> gJoinAttempts, log |-> <<>>],
           list, joinRes, 1, tnow)

\* monitor.go:382-461: checkFreeElectricitySessions from the list on
processFreeElectricity(list, tnow) ==
    feLoop([known |-> KnownFreeElectricitySessions, found |-> FALSE,
            states |-> AlertStates, log |-> <<>>, skipped |-> <<>>,
            fireCount |-> gFireCount, recWin |-> gRecWin, scen |-> gScen],
           list, 1, tnow, 0)

\* monitor.go:169, 173-180: the initial check is over and the loop is in its
\* select, the timer set to getSmartInterval armed
InSelect == pcLoop = "waiting" /\ gSave.at # -1

\* monitor.go:180-182: the select takes the case of the timer.  The
\* goroutine is parked on the three channels and the first of them to
\* deliver decides: the timer when it fires before stopCh or the context
\* are closed.  The timer is armed for a minute or more right before the
\* select, so it is never due when the select is entered.
selectTimer(due, stop, done) == due /\ ~stop /\ ~done

\* monitor.go:169-177 and 211, 243-247: the initial check, or the timer set
\* to getSmartInterval at the end of the last tick fires, and the tick calls
\* checkSavingSessions, which finds a fresh entry and goes through its
\* list, or finds none and asks the account endpoint
LoopCheckSaving(joinRes) ==
    /\ pcLoop = "waiting"
    /\ ~exited
    /\ InSelect =>
          selectTimer(now >= gSave.at
                               + getSmartInterval(TRUE, MonitorDefaultCheckInterval,
                                                  lastNewSessionTime,
                                                  consecutiveEmptyChecks,
                                                  gSave.at, TRUE),
                      stopCh, ctxDone)
    /\ IF SavingSessionsFresh(now)
       THEN LET r == processSavingSessions(CachedSavingSessions.Data.JoinedEvents,
                                           joinRes, now)
            IN  /\ KnownSessions' = r.known
                /\ gJoinAttempts' = r.attempts
                /\ gSessionLog' = r.log
                /\ foundSaving' = r.found
                /\ pcLoop' = "free"
       ELSE /\ pcLoop' = "saving_fetch"
            /\ UNCHANGED <<KnownSessions, gJoinAttempts, gSessionLog,
                           foundSaving>>
    /\ UNCHANGED <<now, minPointsThreshold, CachedSavingSessions, feVars,
                   trVars, tickVars, authVars, paceVars, pureVars, cancelVars, jwtStateVars, saveVars,
                   webVars, fsVars>>

\* the account endpoint and the points query have answered the tick
LoopFetchedSaving(rest, pts, joinRes) ==
    /\ pcLoop = "saving_fetch"
    /\ ~exited
    /\ LET got == storeSavingSessions(CachedSavingSessions, rest, pts, now)
           r == processSavingSessions(got.Data.JoinedEvents, joinRes, now)
       IN  /\ CachedSavingSessions' = got.cache
           /\ gStoredBy' = IF got.err THEN gStoredBy
                           ELSE [gStoredBy EXCEPT !.saving = "loop"]
           /\ KnownSessions' = IF got.err THEN KnownSessions ELSE r.known
           /\ gJoinAttempts' = IF got.err THEN gJoinAttempts ELSE r.attempts
           /\ gSessionLog' = IF got.err THEN <<>> ELSE r.log
           /\ foundSaving' = (~got.err /\ r.found)
    /\ pcLoop' = "free"
    /\ UNCHANGED <<now, minPointsThreshold, feVars, trVars, tickVars, authVars,
                   paceVars, pureVars, cancelVars, jwtStateVars, saveVars, pcWeb,
                   CachedUsageMeasurements, fsVars>>

\* monitor.go:220-239 after the free-electricity sessions of the tick: the
\* tracking and the Save
finishTick(fe, cache) ==
    LET track == trackNewSessions(foundNewSessions(foundSaving, fe.found),
                                  consecutiveEmptyChecks, lastNewSessionTime,
                                  now)
        saved == Save([AlertStates |-> fe.states,
                       KnownSessions |-> KnownSessions,
                       KnownFreeElectricitySessions |-> fe.known,
                       CachedSavingSessions |-> CachedSavingSessions,
                       CachedFreeElectricity |-> cache],
                      LastUpdated, gStateFile, "ok", now)
    IN  /\ KnownFreeElectricitySessions' = fe.known
        /\ AlertStates' = fe.states
        /\ CachedFreeElectricity' = cache
        /\ gEvalLog' = fe.log
        /\ gSkipped' = fe.skipped
        /\ gFireCount' = fe.fireCount
        /\ gRecWin' = fe.recWin
        /\ gScen' = fe.scen
        /\ consecutiveEmptyChecks' = track.count
        /\ lastNewSessionTime' = track.last
        /\ LastUpdated' = saved.LastUpdated
        /\ gStateFile' = saved.file
        /\ gSave' = [at |-> now, outcome |-> "ok", err |-> saved.err]
        /\ foundSaving' = FALSE
        /\ pcLoop' = "waiting"

\* what checkFreeElectricitySessions leaves when its fetch failed
freeUntouched ==
    [known |-> KnownFreeElectricitySessions, found |-> FALSE,
     states |-> AlertStates, log |-> <<>>, skipped |-> <<>>,
     fireCount |-> gFireCount, recWin |-> gRecWin, scen |-> gScen]

\* monitor.go:216 and 375-380: the tick calls checkFreeElectricitySessions,
\* which finds a fresh entry, evaluates it and ends the tick, or finds none
\* and asks the third-party endpoint
LoopCheckFree ==
    /\ pcLoop = "free"
    /\ ~exited
    /\ IF FreeElectricityFresh(now)
       THEN /\ finishTick(processFreeElectricity(CachedFreeElectricity.Data, now),
                          CachedFreeElectricity)
            /\ UNCHANGED <<gSSRead, gFERead>>
       ELSE /\ pcLoop' = "free_fetch"
            /\ UNCHANGED <<feVars, tickVars, saveVars, foundSaving>>
    /\ UNCHANGED <<now, ssVars, trVars, authVars, paceVars, pureVars, cancelVars, jwtStateVars, webVars,
            fsVars>>

\* the third-party endpoint has answered the tick
LoopFetchedFree(reply) ==
    /\ pcLoop = "free_fetch"
    /\ ~exited
    /\ LET got == storeFreeElectricity(CachedFreeElectricity, reply, now)
       IN  /\ finishTick(IF got.err THEN freeUntouched
                         ELSE processFreeElectricity(got.Data, now),
                         got.cache)
           /\ gStoredBy' = IF got.err THEN gStoredBy
                           ELSE [gStoredBy EXCEPT !.free = "loop"]
    /\ UNCHANGED <<now, ssVars, trVars, gSSRead, gFERead, authVars, paceVars,
                   pureVars, cancelVars, jwtStateVars, pcWeb, CachedUsageMeasurements,
                   fsVars>>

\* variant: the handler marks the sessions it hands out as known
handlerKnownSessionsMarked(known, list) ==
    known \cup {list[i].EventID : i \in 1..Len(list)}

\* client.go:1397-1496 and version.go:319-443: what a handler does to
\* KnownSessions with the list of saving sessions it got
handlerKnownSessions(known, list) == known

\* client.go:1397-1399, version.go:343: a request for /api/sessions or for
\* /metrics arrives and its handler calls GetSavingSessionsWithCache, which
\* returns a fresh entry or asks the account endpoint
WebCheckSaving(handler) ==
    /\ pcWeb = "idle"
    /\ handler \in {"sessions", "metrics"}
    /\ IF SavingSessionsFresh(now)
       THEN /\ pcWeb' = IF handler = "sessions" THEN "sessions_free"
                        ELSE "metrics_free_fetch"
            /\ KnownSessions' =
                  handlerKnownSessions(KnownSessions,
                                       CachedSavingSessions.Data.JoinedEvents)
       ELSE /\ pcWeb' = IF handler = "sessions" THEN "sessions_saving_fetch"
                        ELSE "metrics_saving_fetch"
            /\ UNCHANGED KnownSessions
    /\ UNCHANGED <<now, minPointsThreshold, CachedSavingSessions, gJoinAttempts,
                   gSessionLog, feVars, trVars, tickVars, authVars, paceVars,
                   pureVars, cancelVars, jwtStateVars, saveVars, loopVars, CachedUsageMeasurements,
                   gStoredBy, fsVars>>

\* the account endpoint and the points query have answered the handler
WebFetchedSaving(rest, pts) ==
    /\ pcWeb \in {"sessions_saving_fetch", "metrics_saving_fetch"}
    /\ LET got == storeSavingSessions(CachedSavingSessions, rest, pts, now)
       IN  /\ CachedSavingSessions' = got.cache
           /\ gStoredBy' = IF got.err THEN gStoredBy
                           ELSE [gStoredBy EXCEPT !.saving = "web"]
           /\ KnownSessions' =
                 handlerKnownSessions(KnownSessions, got.Data.JoinedEvents)
    /\ pcWeb' = IF pcWeb = "sessions_saving_fetch" THEN "sessions_free"
                ELSE "metrics_free_fetch"
    /\ UNCHANGED <<now, minPointsThreshold, gJoinAttempts, gSessionLog, feVars,
                   trVars, tickVars, authVars, paceVars, pureVars, cancelVars, jwtStateVars, saveVars,
                   loopVars, CachedUsageMeasurements, fsVars>>

\* client.go:1405-1409: handleSessionsAPI calls
\* GetFreeElectricitySessionsWithCache, which returns a fresh entry, or
\* asks the third-party endpoint.  The account, spins and campaign reads
\* that follow (1441-1467) touch entries that are not modelled.
WebCheckFree ==
    /\ pcWeb = "sessions_free"
    /\ pcWeb' = IF FreeElectricityFresh(now) THEN "idle"
                ELSE "sessions_free_fetch"
    /\ UNCHANGED <<now, feVars, ssVars, trVars, tickVars, authVars, paceVars,
                   pureVars, cancelVars, jwtStateVars, saveVars, loopVars, CachedUsageMeasurements,
                   gStoredBy, fsVars>>

\* the third-party endpoint has answered handleSessionsAPI
WebFetchedFree(reply) ==
    /\ pcWeb = "sessions_free_fetch"
    /\ LET got == storeFreeElectricity(CachedFreeElectricity, reply, now)
       IN  /\ CachedFreeElectricity' = got.cache
           /\ gStoredBy' = IF got.err THEN gStoredBy
                           ELSE [gStoredBy EXCEPT !.free = "web"]
    /\ pcWeb' = "idle"
    /\ UNCHANGED <<now, KnownFreeElectricitySessions, AlertStates, gEvalLog,
                   gSkipped, gFireCount, gRecWin, gScen, ssVars, trVars,
                   tickVars, authVars, paceVars, pureVars, cancelVars, jwtStateVars, saveVars, loopVars,
                   CachedUsageMeasurements, fsVars>>

\* version.go:387-389: collectMetrics calls GetFreeElectricitySessions,
\* that is the cached read without a state (client.go:672-674): the
\* endpoint is asked and nothing is stored; then it reads the size of
\* KnownSessions, LastUpdated and the timestamps of the entries (405-440)
WebMetricsFetchedFree ==
    /\ pcWeb = "metrics_free_fetch"
    /\ pcWeb' = "idle"
    /\ UNCHANGED <<now, feVars, ssVars, trVars, tickVars, authVars, paceVars,
                   pureVars, cancelVars, jwtStateVars, saveVars, loopVars, CachedUsageMeasurements,
                   gStoredBy, fsVars>>

\* client.go:1551-1556: a request for /api/usage/refresh arrives and its
\* handler drops the cached usage measurements, then asks for fresh ones
WebUsageRefresh ==
    /\ pcWeb = "idle"
    /\ CachedUsageMeasurements' = FALSE
    /\ pcWeb' = "usage_fetch"
    /\ UNCHANGED <<now, feVars, ssVars, trVars, tickVars, authVars, paceVars,
                   pureVars, cancelVars, jwtStateVars, saveVars, loopVars, gStoredBy,
                   fsVars>>

\* client.go:1570-1625: the measurements have arrived, or not, and are
\* written to the response; nothing is stored
WebUsageFetched ==
    /\ pcWeb = "usage_fetch"
    /\ pcWeb' = "idle"
    /\ UNCHANGED <<now, feVars, ssVars, trVars, tickVars, authVars, paceVars,
                   pureVars, cancelVars, jwtStateVars, saveVars, loopVars, CachedUsageMeasurements,
                   gStoredBy, fsVars>>

\* client.go:1498-1512: a request for /api/usage is served by
\* getUsageMeasurementsWithCache, which leaves an entry in the state
WebUsage ==
    /\ pcWeb = "idle"
    /\ ~CachedUsageMeasurements
    /\ CachedUsageMeasurements' = TRUE
    /\ UNCHANGED <<now, feVars, ssVars, trVars, tickVars, authVars, paceVars,
                   pureVars, cancelVars, jwtStateVars, saveVars, loopVars, pcWeb, gStoredBy,
                   fsVars>>

\* where the poll loop is, for the record of a signal
LoopPosition ==
    IF InSelect THEN "select"
    ELSE IF pcLoop = "waiting" THEN "start"
    ELSE IF pcLoop = "returned" THEN "returned"
    ELSE "tick"

\* errors_test.go:819-823: main got SIGINT or SIGTERM and cancels the context
Cancel ==
    /\ ~ctxDone
    /\ ~exited
    /\ ctxDone' = TRUE
    /\ gSignal' = IF gSignal.at = -1 THEN [at |-> now, pc |-> LoopPosition]
                  ELSE gSignal
    /\ UNCHANGED <<now, feVars, ssVars, trVars, tickVars, authVars, paceVars,
                   pureVars, jwtStateVars, saveVars, loopVars, webVars, stopCh, gReturn,
                   exited, fsVars>>

\* monitor.go:201-203: Stop closes stopCh (a second close would panic)
Stop ==
    /\ ~stopCh
    /\ ~exited
    /\ stopCh' = TRUE
    /\ gSignal' = IF gSignal.at = -1 THEN [at |-> now, pc |-> LoopPosition]
                  ELSE gSignal
    /\ UNCHANGED <<now, feVars, ssVars, trVars, tickVars, authVars, paceVars,
                   pureVars, jwtStateVars, saveVars, loopVars, webVars, ctxDone, gReturn,
                   exited, fsVars>>

\* monitor.go:183-194: the select takes the case of stopCh and returns nil,
\* or the case of the context and returns its error; with both closed
\* either is taken
LoopReturn ==
    /\ InSelect
    /\ ~exited
    /\ stopCh \/ ctxDone
    /\ \E case \in {"nil", "canceled"} :
         /\ case = "nil" => stopCh
         /\ case = "canceled" => ctxDone
         /\ gReturn' = case
    /\ pcLoop' = "returned"
    /\ UNCHANGED <<now, feVars, ssVars, trVars, tickVars, authVars, paceVars,
                   pureVars, jwtStateVars, saveVars, foundSaving, webVars, stopCh, ctxDone,
                   gSignal, exited, fsVars>>

\* errors_test.go:822-827: two seconds after the cancel main returns and
\* the process ends with every goroutine where it is.  A goroutine parked
\* in the select has returned long before; an outbound call of a tick may
\* take up to 30 seconds (client.go:86) and may be repeated.
MainExit ==
    /\ ctxDone
    /\ ~exited
    /\ ~InSelect
    /\ exited' = TRUE
    /\ UNCHANGED <<now, feVars, ssVars, trVars, tickVars, authVars, paceVars,
                   pureVars, jwtStateVars, saveVars, loopVars, webVars, stopCh, ctxDone,
                   gSignal, gReturn, fsVars>>

\* time passes between two activities: an outbound call is answered within
\* the minute in which it was made
Pass(t) ==
    /\ pcLoop = "waiting"
    /\ ~exited
    /\ pcWeb = "idle"
    /\ t > now
    /\ now' = t
    /\ UNCHANGED <<feVars, ssVars, trVars, tickVars, authVars, paceVars,
                   pureVars, daemonVars>>

\* --- the afternoon of the two goroutines: the daemon starts at 13:55 and
\* its timer fires at 14:05; one saving session and one free-electricity
\* session
WebTimes == {T0}

WebPointsReplies == {[err |-> FALSE, points |-> 200]}

WebRestReplies ==
    {NoRest}
    \cup {[res |-> Response(200), body |-> l] :
            l \in {m \in TickLists : \A i \in 1..Len(m) : m[i].EventID = 1}}

WebJoinResults == {[i \in SessionIDs |-> r] : r \in {Response(201), ErrResult}}

NextWeb ==
    \/ \E joinRes \in WebJoinResults : LoopCheckSaving(joinRes)
    \/ \E rest \in WebRestReplies, joinRes \in WebJoinResults :
         \E pts \in (IF rest.res.err THEN {NoPoints} ELSE WebPointsReplies) :
           LoopFetchedSaving(rest, pts, joinRes)
    \/ LoopCheckFree
    \/ \E reply \in TickFreeReplies : LoopFetchedFree(reply)
    \/ \E handler \in {"sessions", "metrics"} : WebCheckSaving(handler)
    \/ \E rest \in WebRestReplies :
         \E pts \in (IF rest.res.err THEN {NoPoints} ELSE WebPointsReplies) :
           WebFetchedSaving(rest, pts)
    \/ WebCheckFree
    \/ \E reply \in TickFreeReplies : WebFetchedFree(reply)
    \/ WebMetricsFetchedFree
    \/ WebUsageRefresh
    \/ WebUsageFetched
    \/ WebUsage
    \/ \E t \in WebTimes : Pass(t)

SpecWeb == InitDefault /\ [][NextWeb]_vars

\* client.go:143-162 and 167-176: what follows the answer to an attempt that
\* is to be repeated.  The answer came latency after the attempt left;
\* time.Sleep returns at once for a backoff that is not positive; the next
\* invocation passes enforceRateLimit with lastRequestTime at the instant
\* the attempt left.  delay is the time from the answer to the next attempt.
retryDelay(reply, att, jitter, latency) ==
    LET r == makeRequestWithRetry(reply, att, jitter)
        wake == latency + Max(0, r.sleep)
    IN  [retry |-> r.retry, sleep |-> r.sleep,
         delay |-> IF r.retry THEN enforceRateLimit(0, wake) - latency ELSE 0]

\* one invocation of makeRequestWithRetry and the wait it leads to
CallRetry(reply, att, jitter, latency) ==
    /\ call' = [fn |-> "makeRequestWithRetry", reply |-> reply,
                attempt |-> att, jitter |-> jitter, latency |-> latency]
    /\ ret' = [fn |-> "makeRequestWithRetry"]
               @@ retryDelay(reply, att, jitter, latency)
    /\ UNCHANGED <<now, feVars, ssVars, trVars, tickVars, authVars, paceVars,
                   daemonVars>>

\* client.go:186-191 applied to an attempt number and a draw
CallCalculateBackoff(att, jitter) ==
    /\ call' = [fn |-> "calculateBackoff", attempt |-> att, jitter |-> jitter]
    /\ ret' = [fn |-> "calculateBackoff",
               backoff |-> calculateBackoff(att, jitter)]
    /\ UNCHANGED <<now, feVars, ssVars, trVars, tickVars, authVars, paceVars,
                   daemonVars>>

\* --- the answers with a Retry-After header: absent, an HTTP date, and
\* integers around zero
RetryAfterHeaders ==
    {NoHeader, [kind |-> "text", seconds |-> 0]}
    \cup {[kind |-> "int", seconds |-> n] : n \in {0 - 1, 0, 1, 2}}

RetryAfterReplies ==
    {ConnError} \cup {Answer(st, h) : st \in Statuses, h \in RetryAfterHeaders}

\* the largest attempt number handed to calculateBackoff
MaxAttempt == 4

NextBackoff ==
    \/ \E reply \in RetryAfterReplies, att \in 0..HTTPMaxRetries,
          latency \in 0..MaxLatency :
         \E jitter \in JitterDraws(att) :
           /\ call = NoCall
           /\ CallRetry(reply, att, jitter, latency)
    \/ \E att \in 0..MaxAttempt :
         \E jitter \in JitterDraws(att) :
           /\ call = NoCall
           /\ CallCalculateBackoff(att, jitter)

SpecBackoff == InitDefault /\ [][NextBackoff]_vars

\* --- the poll loop, the signals and main: the timer of the first tick is
\* due at 14:05
LoopTimes == {T0, T0 + 5}

NextLoop ==
    \/ \E joinRes \in WebJoinResults : LoopCheckSaving(joinRes)
    \/ \E rest \in WebRestReplies, joinRes \in WebJoinResults :
         \E pts \in (IF rest.res.err THEN {NoPoints} ELSE WebPointsReplies) :
           LoopFetchedSaving(rest, pts, joinRes)
    \/ LoopCheckFree
    \/ \E reply \in TickFreeReplies : LoopFetchedFree(reply)
    \/ Cancel
    \/ Stop
    \/ LoopReturn
    \/ MainExit
    \/ \E t \in LoopTimes : Pass(t)

\* the scheduler runs a goroutine that can run
SpecLoop == InitDefault /\ [][NextLoop]_vars /\ WF_vars(LoopReturn)

\* --- the states that are saved, the documents of earlier releases and
\* the instants: a save, then a start seven days later to the minute and
\* one minute after that
FlagsOf(on) == [st \in Stages |-> st \in on]

SavedStates ==
    {[ZeroAppState EXCEPT !.nil = {}],
     [ZeroAppState EXCEPT !.nil = {}, !.KnownSessions = {1},
                          !.JWTToken = 1, !.JWTTokenExpiry = 600],
     [ZeroAppState EXCEPT !.nil = {}, !.KnownSessions = {1, 2},
                          !.KnownFreeElectricitySessions = {"A"},
                          !.AlertStates = [c \in {"A"} |->
                                              FlagsOf({"InitialAlert",
                                                       "TwelveHourAlert"})]],
     [ZeroAppState EXCEPT !.nil = {}, !.KnownSessions = {2},
                          !.KnownFreeElectricitySessions = {"A"},
                          !.AlertStates = [c \in {"A"} |-> FlagsOf(Stages)],
                          !.JWTToken = 2, !.JWTTokenExpiry = 20000]}

FullDocument == MarshalIndent(CHOOSE s \in SavedStates : s.JWTToken = 2)

OlderDocuments ==
    {[FullDocument EXCEPT !.alert_states = Absent],
     [FullDocument EXCEPT !.known_sessions = Absent],
     [FullDocument EXCEPT !.known_free_electricity_sessions = Absent],
     [FullDocument EXCEPT !.alert_states = Absent, !.known_sessions = Absent,
                          !.known_free_electricity_sessions = Absent,
                          !.last_updated = Absent]}

StateTimes == {StateCleanupAge, StateCleanupAge + 1}

NextState ==
    \/ \E a \in AccountIDs, app \in SavedStates, outcome \in SaveOutcomes :
         /\ call = NoCall
         /\ SaveAs(a, app, outcome)
    \/ \E a \in AccountIDs, doc \in OlderDocuments :
         /\ call = NoCall
         /\ now = 0
         /\ OlderFile(a, doc)
    \/ \E a \in AccountIDs, outcome \in LoadOutcomes :
         /\ call = NoCall
         /\ StartMonitor(a, outcome)
    \/ \E t \in StateTimes :
         /\ call = NoCall
         /\ Pass(t)

SpecState == InitDefault /\ [][NextState]_vars

(***************************************************************************)
(* The settings main works with (main.go:43-95, config.go:37-74)           *)
(***************************************************************************)
\* a flag that is not on the command line, a key that is not in the file
NotGiven == [given |-> FALSE]

Given(v) == [given |-> TRUE, v |-> v]

\* flag.StringVar, flag.IntVar, flag.BoolVar followed by flag.Parse
\* (main.go:47-58): the variable holds the default unless the flag is given
flagVar(arg, default) == IF arg.given THEN arg.v ELSE default

\* config.go:37-65: the defaults of LoadConfig, overwritten by the keys the
\* file has, and config.go:67-74: ApplyDefaults on the web port
LoadConfig(file) ==
    [AccountID |-> flagVar(file.account_id, ""),
     Daemon |-> flagVar(file.daemon, FALSE),
     MinPoints |-> flagVar(file.min_points, 0),
     WebPort |-> IF flagVar(file.web_port, 8080) <= 0 THEN 8080
                 ELSE flagVar(file.web_port, 8080)]

\* main.go:43-95: the account, the daemon mode, the points threshold and
\* the web port that main goes on with, from the arguments args, the
\* environment variable OCTOPUS_ACCOUNT_ID (empty when unset) and the keys
\* of the configuration file
mainSettings(args, env, file) ==
    LET config == LoadConfig(file)
        accountID == flagVar(args.account, env)
        daemon == flagVar(args.daemon, FALSE)
        minPoints == flagVar(args.minPoints, 0)
        webPort == flagVar(args.port, 8080)
    IN  [accountID |-> IF accountID = "" /\ config.AccountID # ""
                       THEN config.AccountID ELSE accountID,
         daemon |-> IF ~daemon /\ config.Daemon THEN config.Daemon ELSE daemon,
         minPoints |-> IF minPoints = 0 /\ config.MinPoints # 0
                       THEN config.MinPoints ELSE minPoints,
         webPort |-> IF webPort = 8080 /\ config.WebPort # 8080
                        /\ config.WebPort > 0
                     THEN config.WebPort ELSE webPort]

CallMainSettings(args, env, file) ==
    /\ call' = [fn |-> "mainSettings", args |-> args, env |-> env,
                file |-> file]
    /\ ret' = [fn |-> "mainSettings", settings |-> mainSettings(args, env, file)]
    /\ UNCHANGED <<now, feVars, ssVars, trVars, tickVars, authVars, paceVars,
                   daemonVars>>

OneOf(values) == {NotGiven} \cup {Given(v) : v \in values}

SettingArgs ==
    [account : OneOf({"A-1A2B3C4D"}), daemon : OneOf(BOOLEAN),
     minPoints : OneOf({0, 50}), port : OneOf({8080, 9090})]

SettingEnvs == {"", "A-5E6F7A8B"}

SettingFiles ==
    [account_id : OneOf({"A-9C0D1E2F"}), daemon : OneOf(BOOLEAN),
     min_points : OneOf({0, 100}), web_port : OneOf({8080, 9000})]

NextSettings ==
    \E args \in SettingArgs, env \in SettingEnvs, file \in SettingFiles :
       /\ call = NoCall
       /\ CallMainSettings(args, env, file)

SpecSettings == InitDefault /\ [][NextSettings]_vars

Next ==
    \/ NextSchedule
    \/ NextPoints
    \/ NextRefresh
    \/ NextSettings
    \/ NextState
    \/ NextCredential
    \/ NextBackoff
    \/ NextLoop
    \/ NextWeb
    \/ NextPartial
    \/ NextTick
    \/ NextInterval
    \/ NextAlert
    \/ NextJoin
    \/ NextTransport
    \/ NextClassify
    \/ NextAuth
    \/ NextValid

Spec == Init /\ [][Next]_vars

(***************************************************************************)
(* Properties                                                              *)
(***************************************************************************)
LogIndex(log) == 1..Len(log)

\* C1: over the ticks of one process the join call is made at most once per
\* saving-session event id, whether it succeeded or failed, also when the id
\* comes back in a later fetch or twice in one list.
C1_JoinAtMostOnce == \A i \in SessionIDs : gJoinAttempts[i] <= 1

\* a join failed and the same id came again later in the same list
C1_Witness ==
    \E j \in LogIndex(gSessionLog), k \in LogIndex(gSessionLog) :
        /\ j < k
        /\ gSessionLog[j].joined /\ gSessionLog[j].joinErr
        /\ gSessionLog[k].EventID = gSessionLog[j].EventID
        /\ gSessionLog[k].wasKnown
        /\ gJoinAttempts[gSessionLog[k].EventID] = 1

\* C2: a session whose id is not yet known is joined iff it starts after now
\* and its OctoPoints reach the threshold; in every case it is marked known.
\* Reward 50 under threshold 100 and a session already started are not
\* joined; reward 150, threshold 100, start in 3 hours is joined; with
\* threshold 0 every unseen future session is joined.
C2_JoinIffEligible ==
    \A k \in LogIndex(gSessionLog) :
        LET e == gSessionLog[k]
        IN  /\ e.EventID \in KnownSessions
            /\ ~e.wasKnown =>
                 /\ e.joined <=> (e.StartAt > e.at /\ e.OctoPoints >= minPointsThreshold)
                 /\ (e.OctoPoints = 50 /\ minPointsThreshold = 100) => ~e.joined
                 /\ e.StartAt <= e.at => ~e.joined
                 /\ (e.OctoPoints = 150 /\ minPointsThreshold = 100
                       /\ e.StartAt = e.at + 180) => e.joined
                 /\ (minPointsThreshold = 0 /\ e.StartAt > e.at) => e.joined

\* reward 150, threshold 100, start in 3 hours: joined
C2_Witness ==
    \E k \in LogIndex(gSessionLog) :
        /\ ~gSessionLog[k].wasKnown
        /\ gSessionLog[k].OctoPoints = 150
        /\ minPointsThreshold = 100
        /\ gSessionLog[k].StartAt = gSessionLog[k].at + 180
        /\ gSessionLog[k].joined

DeletedIn(log, c) == \E k \in LogIndex(log) : log[k].Code = c /\ log[k].deleted

\* C3: as long as the record of a code is not deleted, a flag that is set
\* stays set, and no stage alerts twice during the life of one record.
C3_FlagsMonotonic ==
    [][\A c \in Codes :
          /\ (c \in DOMAIN AlertStates /\ c \in DOMAIN AlertStates'
                /\ ~DeletedIn(gEvalLog', c))
               => \A s \in Stages : AlertStates[c][s] => AlertStates'[c][s]
          /\ \A s \in Stages : gFireCount'[c][s] <= 1]_vars

\* an existing record with FinalAlert set was evaluated again: no alert
C3_Witness ==
    \E k \in LogIndex(gEvalLog) :
        /\ gEvalLog[k].existed /\ ~gEvalLog[k].deleted
        /\ gEvalLog[k].before["FinalAlert"] /\ gEvalLog[k].before["InitialAlert"]
        /\ gEvalLog[k].after["FinalAlert"] /\ gEvalLog[k].after["InitialAlert"]
        /\ gFireCount[gEvalLog[k].Code]["FinalAlert"] = 1

\* the thresholds of the claim, in minutes
Threshold(s) ==
    CASE s = "FinalAlert" -> 15
      [] s = "SixHourAlert" -> 6 * 60
      [] s = "TwelveHourAlert" -> 12 * 60
      [] s = "DayOfAlert" -> 24 * 60

Satisfied(s, timeUntil) == s = "InitialAlert" \/ timeUntil <= Threshold(s)

\* tightest first
Rank(s) ==
    CASE s = "FinalAlert" -> 1
      [] s = "SixHourAlert" -> 2
      [] s = "TwelveHourAlert" -> 3
      [] s = "DayOfAlert" -> 4
      [] s = "InitialAlert" -> 5

NewlySet(e) == {s \in Stages : e.after[s] /\ ~e.before[s]}

Cleared(e) == {s \in Stages : e.before[s] /\ ~e.after[s]}

\* C4: one evaluation sets at most one flag and returns at most one alert,
\* and for an upcoming session the stage is the tightest one whose threshold
\* holds for timeUntil and whose flag is unset.
C4_OneStagePerEvaluation ==
    \A k \in LogIndex(gEvalLog) :
        LET e == gEvalLog[k]
            open == {s \in Stages : ~e.before[s] /\ Satisfied(s, e.timeUntil)}
        IN  /\ Cardinality(NewlySet(e)) <= 1
            /\ Cleared(e) = {}
            /\ e.fire => NewlySet(e) = {StageOf(e.type)}
            /\ ~e.fire => (NewlySet(e) = {} /\ e.type = "")
            /\ (e.StartAt > e.at /\ open = {}) => ~e.fire
            /\ (e.StartAt > e.at /\ open # {}) =>
                  /\ e.fire
                  /\ e.type # "ACTIVE NOW"
                  /\ StageOf(e.type) \in open
                  /\ \A s \in open : Rank(StageOf(e.type)) <= Rank(s)

\* an upcoming session 15 minutes or less away whose final alert is out:
\* the six-hour stage is the tightest one left
C4_Witness ==
    \E k \in LogIndex(gEvalLog) :
        /\ gEvalLog[k].StartAt > gEvalLog[k].at
        /\ gEvalLog[k].timeUntil <= 15
        /\ gEvalLog[k].before["FinalAlert"]
        /\ gEvalLog[k].fire /\ gEvalLog[k].type = "6-HOUR REMINDER"

\* C5: once a stage has fired, no looser stage of the same record fires on
\* a later tick of the same window.
C5_NoRegression ==
    \A k \in LogIndex(gEvalLog) :
        LET e == gEvalLog[k]
        IN  (e.steady /\ e.fire) =>
                \A s \in Stages : Rank(s) < Rank(StageOf(e.type)) => ~e.before[s]

Active(e) == e.StartAt < e.at /\ e.EndAt > e.at

FirstOf(log, k) == \A j \in 1..(k - 1) : log[j].Code # log[k].Code

ActiveEvaluations(log) ==
    \A k \in LogIndex(log) :
        LET e == log[k]
        IN  Active(e) =>
              /\ ~e.deleted
              /\ ~e.before["FinalAlert"] =>
                    (e.fire /\ e.type = "ACTIVE NOW" /\ NewlySet(e) = {"FinalAlert"})
              /\ e.before["FinalAlert"] => (~e.fire /\ e.after = e.before)

\* C6: while the window is active, ACTIVE NOW fires on the first evaluation
\* that finds FinalAlert unset and sets it; a tick that finds it set, by an
\* earlier ACTIVE NOW or by the 15-minute alert, produces no alert.
C6_ActiveAlertsOnce ==
    [][/\ ActiveEvaluations(gEvalLog')
       /\ \A k \in LogIndex(gEvalLog') :
            (/\ FirstOf(gEvalLog', k)
             /\ Active(gEvalLog'[k])
             /\ gEvalLog'[k].Code \in DOMAIN AlertStates
             /\ AlertStates[gEvalLog'[k].Code]["FinalAlert"])
            => ~gEvalLog'[k].fire]_vars

\* the window is active, FinalAlert was unset, ACTIVE NOW fired
C6_Witness ==
    \E k \in LogIndex(gEvalLog) :
        /\ Active(gEvalLog[k])
        /\ gEvalLog[k].existed
        /\ gEvalLog[k].fire /\ gEvalLog[k].type = "ACTIVE NOW"
        /\ gEvalLog[k].Code \in DOMAIN AlertStates
        /\ AlertStates[gEvalLog[k].Code]["FinalAlert"]

\* C7: a tick that observes a session whose end is before now leaves no
\* alert record for its code.
C7_EndedRecordRemoved ==
    \A k \in LogIndex(gSkipped) :
        (\A j \in LogIndex(gEvalLog) : gEvalLog[j].Code # gSkipped[k].Code)
            => gSkipped[k].Code \notin DOMAIN AlertStates

\* C8: evaluated 30 hours, 20 hours, 5 hours and 10 minutes before its
\* start, a session gets INITIAL ALERT, DAY-OF REMINDER, 6-HOUR REMINDER and
\* STARTING SOON, one per evaluation, in that order.
C8_ScenarioC ==
    \A k \in LogIndex(gEvalLog) :
        LET e == gEvalLog[k]
        IN  /\ e.scenStep = 1 => (e.fire /\ e.type = "INITIAL ALERT")
            /\ e.scenStep = 2 => (e.fire /\ e.type = "DAY-OF REMINDER")
            /\ e.scenStep = 3 => (e.fire /\ e.type = "6-HOUR REMINDER")
            /\ e.scenStep = 4 => (e.fire /\ e.type = "STARTING SOON")
            /\ e.scenStep \in 1..4 => Cardinality(NewlySet(e)) = 1

\* the fourth evaluation of the scenario has happened
C8_Witness ==
    \E k \in LogIndex(gEvalLog) :
        /\ gEvalLog[k].scenStep = 4
        /\ gEvalLog[k].timeUntil = 10
        /\ \A s \in Stages : gEvalLog[k].after[s] <=> s # "TwelveHourAlert"

\* C9: makeRequest returns an error, or a response whose status is neither
\* retryable nor an authentication failure.
C9_NoFailureStatusReturned ==
    rpc = "returned" =>
        \/ result.err
        \/ result.status \notin {429, 500, 502, 503, 504, 401, 403}

\* C9 as amended: makeRequest returns an error or the last response it
\* received; the response has a retryable status only when all 4 attempts of
\* the budget were made, 401 and 403 come back as they are, and the callers
\* getSavingSessionsREST and JoinSavingSession turn each of these into an error.
C9_LastResponseReturned ==
    rpc = "returned" =>
        /\ result.err => (gAttempts = 0 \/ (gLastReply.err /\ gAttempts = 4))
        /\ ~result.err =>
              /\ ~gLastReply.err
              /\ result.status = gLastReply.status
              /\ result.status \in {429, 500, 502, 503, 504} => gAttempts = 4
        /\ (result.err \/ result.status \in {429, 500, 502, 503, 504, 401, 403}) =>
              /\ JoinSavingSession(result)
              /\ getSavingSessionsREST(result, <<>>).err

\* four retryable answers in a row: the last one is what the caller gets
C9_Witness ==
    /\ rpc = "returned"
    /\ gAttempts = 4
    /\ gAllRetryable
    /\ ~result.err
    /\ result.status = 503
    /\ JoinSavingSession(result)

\* C10: one makeRequest call makes at most 4 outbound attempts; after the
\* fourth the call has returned, and a connection error on the last attempt
\* is returned as an error.
C10_AtMostFourAttempts ==
    /\ gAttempts <= 4
    /\ rpc = "call" => (gAttempts < 4 /\ gAttempts = attempt)
    /\ (rpc = "returned" /\ gLastReply.err) => (result.err /\ gAttempts = 4)
    /\ (rpc = "returned" /\ gAllRetryable /\ gAttempts > 0) => gAttempts = 4

\* four connection errors in a row: the call returned the error
C10_Witness ==
    /\ rpc = "returned"
    /\ gAttempts = 4
    /\ gLastReply.err
    /\ result.err

\* C11: the client's classifier and the error package's classifier both
\* answer true exactly for 429, 500, 502, 503 and 504, and so agree on every
\* status code.
C11_RetryClassifier ==
    call.fn = "classify" =>
        /\ ret.shouldRetry = (call.statusCode \in {429, 500, 502, 503, 504})
        /\ ret.Retryable = (call.statusCode \in {429, 500, 502, 503, 504})
        /\ ret.shouldRetry = ret.Retryable

C11_Witness ==
    /\ call.fn = "classify"
    /\ call.statusCode = 502
    /\ ret.shouldRetry
    /\ ret.Retryable

\* the answer of the GraphQL endpoint reports an authentication failure
AuthFailure(qreply) ==
    \/ (~qreply.err /\ qreply.status \in {401, 403})
    \/ (~qreply.err /\ qreply.status = 200 /\ qreply.body = "errors"
        /\ qreply.message \in {"KT-CT-1139", "KT-CT-1143"})

Queries(sent) == {i \in 1..Len(sent) : sent[i].kind = "query"}

Exchanges(sent) == {i \in 1..Len(sent) : sent[i].kind = "token"}

\* C12: an authenticated call whose answer reports an authentication
\* failure (401, 403, or 200 with KT-CT-1139 / KT-CT-1143) invalidates the
\* token, exchanges a new one and sends the query a second time, and never
\* a third time.
C12_AuthRetryOnce ==
    call.fn = "getOctoPointsGraphQL" =>
        /\ Cardinality(Queries(gOutbound)) <= 2
        /\ AuthFailure(call.query) =>
              /\ Cardinality(Queries(gOutbound)) = 2
              /\ \E i \in Exchanges(gOutbound) :
                    /\ i > 1
                    /\ gOutbound[i - 1].kind = "query"

\* C13: every query that carries the bearer token is sent while the stored
\* expiry is set and more than the refresh buffer after the instant of
\* sending.
C13_TokenFreshWhenSent ==
    \A i \in Queries(gOutbound) :
        /\ gOutbound[i].token # 0
        /\ gOutbound[i].expiry # -1
        /\ gOutbound[i].expiry - gOutbound[i].at > JWTRefreshBuffer

\* C14: any two consecutive outbound calls of the client are at least the
\* minimum interval apart.
C14_MinimumSpacing == gGap = -1 \/ gGap >= HTTPMinInterval

\* C16: IsCacheValid(t, d) is true exactly when now - t < d; an entry
\* exactly d old is invalid, the zero timestamp is invalid, and a timestamp
\* ahead of now is valid for every non-negative d.
C16_IsCacheValid ==
    call.fn = "IsCacheValid" =>
        /\ ret.valid <=> (call.now - call.cacheTime < call.maxAge)
        /\ (call.now - call.cacheTime = call.maxAge => ~ret.valid)
        /\ (call.cacheTime = ZeroTime => ~ret.valid)
        /\ (call.cacheTime > call.now /\ call.maxAge >= 0 => ret.valid)

C16_Witness ==
    /\ call.fn = "IsCacheValid"
    /\ call.maxAge = 5
    /\ call.now - call.cacheTime = 5
    /\ ~ret.valid

\* C19: with smart scheduling on, getSmartInterval answers 5 minutes when a
\* new entity was found less than 30 minutes ago; else 5 minutes in the UK
\* hours [14,16) of Monday to Friday; else 10 minutes in the UK hours [9,18)
\* of Monday to Friday; else the event-driven backoff when
\* consecutiveEmptyChecks > 0; else 30 minutes.  The hour and the weekday
\* are those of Europe/London, or of UTC when the zone was not loaded.
C19_SmartIntervalPriority ==
    (call.fn = "getSmartInterval" /\ call.useSmartIntervals) =>
        LET wall == IF call.loaded /\ call.now >= BSTStart /\ call.now < BSTEnd
                    THEN call.now + 60 ELSE call.now
            minuteOfWeek == (wall + 835 + 1440) % 10080
            weekday == minuteOfWeek \div 1440
            hour == (minuteOfWeek % 1440) \div 60
            recent == /\ call.lastNewSessionTime # -1
                      /\ call.now - call.lastNewSessionTime < 30
            n == call.consecutiveEmptyChecks
            backoff == IF 15 + 5 * n > 30 THEN 30 ELSE 15 + 5 * n
        IN  ret.interval =
              IF recent THEN 5
              ELSE IF hour \in 14..15 /\ weekday \in 1..5 THEN 5
              ELSE IF hour \in 9..17 /\ weekday \in 1..5 THEN 10
              ELSE IF n > 0 THEN backoff
              ELSE 30

\* a Monday-to-Friday instant in the UK hour 14 of a summer day, no recent
\* find: the announcement window wins over the business hours
C19_Witness ==
    /\ call.fn = "getSmartInterval"
    /\ call.useSmartIntervals
    /\ call.loaded
    /\ call.now >= BSTStart
    /\ Hour(In(call.now, TRUE)) = 14
    /\ Weekday(In(call.now, TRUE)) = 3
    /\ call.lastNewSessionTime = -1
    /\ call.consecutiveEmptyChecks = 2
    /\ ret.interval = 5

\* the entry a cached read found was fresh for the given duration
FoundFresh(r, freshness) == r.had /\ r.age < freshness

\* the entry a cached read left behind is the one it found
EntryKept(r, cache, none) ==
    IF r.had
    THEN cache = [set |-> TRUE, Data |-> r.stored, Timestamp |-> r.at - r.age]
    ELSE cache = none

\* a cached read that found a fresh entry returned it, asked nobody and kept
\* the entry; any other read asked the remote side and, when that gave a
\* value, stored it under the instant of the read and returned it
ReadServed(r, cache, none, freshness) ==
    r.kind # "none" =>
        IF FoundFresh(r, freshness)
        THEN /\ ~r.remote
             /\ ~r.err
             /\ r.Data = r.stored
             /\ EntryKept(r, cache, none)
        ELSE /\ r.remote
             /\ r.fetched.ok =>
                   /\ ~r.err
                   /\ r.Data = r.fetched.value
                   /\ cache = [set |-> TRUE, Data |-> r.fetched.value,
                               Timestamp |-> r.at]

FailureKept(r, cache, none, freshness) ==
    (r.kind # "none" /\ ~FoundFresh(r, freshness) /\ ~r.fetched.ok) =>
        /\ r.err
        /\ EntryKept(r, cache, none)

\* C17: when a cached read misses and the fetch fails, the error is
\* returned and the stored entry keeps its value and its timestamp.
C17_FailureKeepsEntry ==
    /\ FailureKept(gSSRead, CachedSavingSessions, NoSavingSessionsCache,
                   SavingSessionsCacheAge)
    /\ FailureKept(gFERead, CachedFreeElectricity, NoFreeElectricityCache,
                   FreeElectricityCacheAge)

\* both reads of one tick found a stale entry and failed to replace it
C17_Witness ==
    /\ gSSRead.kind = "saving"
    /\ gSSRead.had
    /\ ~FoundFresh(gSSRead, SavingSessionsCacheAge)
    /\ ~gSSRead.fetched.ok
    /\ gSSRead.err
    /\ CachedSavingSessions.set
    /\ gFERead.had
    /\ ~FoundFresh(gFERead, FreeElectricityCacheAge)
    /\ ~gFERead.fetched.ok
    /\ gFERead.err
    /\ CachedFreeElectricity.set

\* constants.go:42-49: the three freshness durations, in minutes
CacheDurationSavingSessionsOffPeak == 120

CacheDurationSavingSessionsPeak == 10

CacheDurationSavingSessionsBusiness == 30

\* the three-tier freshness duration of the saving sessions at instant t
SavingSessionsFreshness(t) ==
    LET hour == Hour(In(t, TRUE))
    IN  IF hour >= 14 /\ hour < 16 THEN CacheDurationSavingSessionsPeak
        ELSE IF hour >= 9 /\ hour < 18 THEN CacheDurationSavingSessionsBusiness
        ELSE CacheDurationSavingSessionsOffPeak

\* C18: the saving-sessions entry is served from the cache exactly while its
\* age is below the three-tier freshness duration of the time of day (10
\* minutes from 14:00 to 16:00): an entry stored at 14:05 is served at 14:12
\* and refetched at 14:20.
C18_TieredFreshness ==
    (gSSRead.kind = "saving" /\ gSSRead.had) =>
        (gSSRead.remote <=> ~(gSSRead.age < SavingSessionsFreshness(gSSRead.at)))

\* C20: every tick either discovers an unseen entity, and then sets
\* consecutiveEmptyChecks to 0 and lastNewSessionTime to the instant of the
\* tick, or discovers none, and then adds exactly 1 to
\* consecutiveEmptyChecks and keeps lastNewSessionTime.
C20_SchedulerOncePerTick ==
    [][now' # now =>
         IF \/ KnownSessions' # KnownSessions
            \/ KnownFreeElectricitySessions' # KnownFreeElectricitySessions
         THEN /\ consecutiveEmptyChecks' = 0
              /\ lastNewSessionTime' = now'
         ELSE /\ consecutiveEmptyChecks' = consecutiveEmptyChecks + 1
              /\ lastNewSessionTime' = lastNewSessionTime]_vars

\* an empty tick, a tick that found something, then two empty ticks
C20_Witness ==
    /\ lastNewSessionTime = T0 + 3
    /\ now = T0 + 12
    /\ consecutiveEmptyChecks = 2

\* C21: with smart scheduling disabled, by the flag or by the setting, a
\* monitor configured with a positive check_interval_minutes N waits N
\* minutes between ticks, whatever the time of day, the last find and the
\* counter of empty checks.
C21_FixedInterval ==
    (call.fn = "main" /\ call.disabled /\ call.check_interval_minutes > 0)
        => ret.interval = call.check_interval_minutes

\* the event-driven branch of getSmartInterval was taken: smart scheduling
\* on, no find in the last 30 minutes, outside Monday to Friday 9 to 18 UK
\* time, and consecutiveEmptyChecks > 0
EventDriven ==
    /\ call.fn = "getSmartInterval"
    /\ call.useSmartIntervals
    /\ ~(call.lastNewSessionTime # -1
           /\ call.now - call.lastNewSessionTime < 30)
    /\ ~(/\ Hour(In(call.now, call.loaded)) \in 9..17
          /\ Weekday(In(call.now, call.loaded)) \in 1..5)
    /\ call.consecutiveEmptyChecks > 0

\* the answer of getSmartInterval to the same question with another counter
WithCount(n) ==
    getSmartInterval(call.useSmartIntervals, call.checkInterval,
                     call.lastNewSessionTime, n, call.now, call.loaded)

\* C22: in the event-driven branch the interval is 15 + 5 x
\* consecutiveEmptyChecks minutes, does not decrease when the counter
\* grows, and is never above 30 minutes.
C22_EventDrivenLinear ==
    EventDriven =>
        /\ ret.interval = 15 + 5 * call.consecutiveEmptyChecks
        /\ ret.interval <= WithCount(call.consecutiveEmptyChecks + 1)
        /\ ret.interval <= 30

\* C22 as amended: in the event-driven branch the interval is the smaller
\* of 15 + 5 x consecutiveEmptyChecks and 30 minutes: 20, 25, 30 for the
\* counters 1, 2, 3 and 30 from then on; it does not decrease when the
\* counter grows and is never above 30 minutes.
C22_EventDrivenCapped ==
    EventDriven =>
        LET n == call.consecutiveEmptyChecks
        IN  /\ ret.interval = IF 15 + 5 * n > 30 THEN 30 ELSE 15 + 5 * n
            /\ ret.interval <= WithCount(n + 1)
            /\ \A m \in 1..n : WithCount(m) <= ret.interval
            /\ ret.interval <= 30

\* a Saturday, four empty checks: 35 minutes are capped at 30
C22_Witness ==
    /\ EventDriven
    /\ call.consecutiveEmptyChecks = 4
    /\ Weekday(In(call.now, call.loaded)) = 6
    /\ ret.interval = 30

\* every session of the list has its iteration in the log, in order
AllProcessed(list, log) ==
    /\ Len(log) = Len(list)
    /\ \A i \in 1..Len(list) : log[i].EventID = list[i].EventID

\* every session of the list that has not ended has been evaluated, in
\* order, and the ended ones have been skipped
AllEvaluated(list, log, skipped, t) ==
    LET live == SelectSeq(list, LAMBDA x : ~(x.EndAt < t))
        ended == SelectSeq(list, LAMBDA x : x.EndAt < t)
    IN  /\ Len(log) = Len(live)
        /\ \A i \in 1..Len(live) :
              /\ log[i].Code = live[i].Code
              /\ log[i].StartAt = live[i].StartAt
        /\ skipped = ended

\* C23: a tick whose saving-sessions fetch fails still evaluates every
\* free-electricity session it got and alerts on it, and a tick whose
\* free-electricity fetch fails still processes every saving session it
\* got; the failed resource changes nothing and counts as nothing new; the
\* scheduler counters follow what the tick discovered; and Save is called at
\* the end of the tick, writing the state as the tick left it whenever the
\* operating system lets it.
C23_PartialFailure ==
    [][now' # now =>
         /\ gSSRead'.kind = "saving" /\ gFERead'.kind = "free"
         /\ ~gFERead'.err =>
               /\ AllEvaluated(gFERead'.Data, gEvalLog', gSkipped', now')
               /\ \A k \in LogIndex(gEvalLog') :
                     /\ gEvalLog'[k].Code \in KnownFreeElectricitySessions'
                     /\ ~gEvalLog'[k].existed => gEvalLog'[k].fire
         /\ ~gSSRead'.err =>
               /\ AllProcessed(gSSRead'.Data.JoinedEvents, gSessionLog')
               /\ \A k \in LogIndex(gSessionLog') :
                     gSessionLog'[k].EventID \in KnownSessions'
         /\ gSSRead'.err =>
               /\ KnownSessions' = KnownSessions
               /\ gSessionLog' = <<>>
               /\ gJoinAttempts' = gJoinAttempts
               /\ CachedSavingSessions' = CachedSavingSessions
         /\ gFERead'.err =>
               /\ KnownFreeElectricitySessions' = KnownFreeElectricitySessions
               /\ AlertStates' = AlertStates
               /\ gEvalLog' = <<>>
               /\ CachedFreeElectricity' = CachedFreeElectricity
         /\ IF \/ KnownSessions' # KnownSessions
               \/ KnownFreeElectricitySessions' # KnownFreeElectricitySessions
            THEN consecutiveEmptyChecks' = 0 /\ lastNewSessionTime' = now'
            ELSE /\ consecutiveEmptyChecks' = consecutiveEmptyChecks + 1
                 /\ lastNewSessionTime' = lastNewSessionTime
         /\ gSave'.at = now'
         /\ gSave'.outcome = "ok" =>
               /\ ~gSave'.err
               /\ gStateFile'.exists /\ gStateFile'.valid
               /\ gStateFile'.state =
                     [AlertStates |-> AlertStates',
                      KnownSessions |-> KnownSessions',
                      KnownFreeElectricitySessions |-> KnownFreeElectricitySessions',
                      CachedSavingSessions |-> CachedSavingSessions',
                      CachedFreeElectricity |-> CachedFreeElectricity',
                      LastUpdated |-> now']]_vars

\* the second tick could not fetch the saving sessions, found and alerted
\* on a new free-electricity session, reset the counter of empty checks and
\* saved the state with the new session in it
C23_Witness ==
    /\ now = T0 + 12
    /\ gSSRead.kind = "saving" /\ gSSRead.err
    /\ gFERead.kind = "free" /\ ~gFERead.err /\ gFERead.remote
    /\ Len(gEvalLog) = 1
    /\ ~gEvalLog[1].existed /\ gEvalLog[1].fire
    /\ gEvalLog[1].type = "INITIAL ALERT"
    /\ consecutiveEmptyChecks = 0
    /\ lastNewSessionTime = now
    /\ KnownSessions # {}
    /\ gSave.at = now /\ gSave.outcome = "ok"
    /\ gStateFile.exists /\ gStateFile.valid
    /\ gStateFile.state.KnownFreeElectricitySessions = {"A"}

\* C24: in a tick whose list was processed, a join that fails does not end
\* the loop: every session of the list has its iteration; the session whose
\* join failed is known at the end of that tick; and no join call is made
\* for an id that is already known, in the rest of the tick or in a later
\* tick.
C24_FailedJoinIsolated ==
    [][now' # now =>
         /\ gSessionLog' # <<>> =>
               AllProcessed(CachedSavingSessions'.Data.JoinedEvents, gSessionLog')
         /\ \A k \in LogIndex(gSessionLog') :
               LET e == gSessionLog'[k]
               IN  /\ e.joinErr =>
                         /\ e.EventID \in KnownSessions'
                         /\ gJoinAttempts'[e.EventID] = 1
                         /\ \A j \in LogIndex(gSessionLog') :
                               (j > k /\ gSessionLog'[j].EventID = e.EventID)
                                   => (gSessionLog'[j].wasKnown
                                       /\ ~gSessionLog'[j].joined)
                   /\ e.EventID \in KnownSessions => ~e.joined
         /\ \A i \in KnownSessions : gJoinAttempts'[i] = gJoinAttempts[i]]_vars

\* the join of the first session of a list failed and the second session
\* of the list was joined all the same; both are known after the tick
C24_Witness ==
    /\ Len(gSessionLog) = 2
    /\ gSessionLog[1].EventID = 1
    /\ gSessionLog[1].joined /\ gSessionLog[1].joinErr
    /\ gSessionLog[2].EventID = 2
    /\ gSessionLog[2].joined /\ ~gSessionLog[2].joinErr
    /\ gJoinAttempts[1] = 1
    /\ gJoinAttempts[2] = 1
    /\ KnownSessions = {1, 2}

\* a goroutine is between the look at an entry and the store of its new
\* value
LoopInside(entry) == pcLoop = entry \o "_fetch"

WebInside(entry) ==
    \/ pcWeb = "sessions_" \o entry \o "_fetch"
    \/ entry = "saving" /\ pcWeb = "metrics_saving_fetch"

\* C25: the poll loop and a web handler are never both in the middle of the
\* read-modify-write of the same cache entry.
C25_MutualExclusion ==
    \A entry \in {"saving", "free"} : ~(LoopInside(entry) /\ WebInside(entry))

\* a step of a web handler
HandlerStep ==
    \/ pcWeb' # pcWeb
    \/ CachedUsageMeasurements' # CachedUsageMeasurements

\* C26: a step of a dashboard or metrics handler leaves KnownSessions,
\* KnownFreeElectricitySessions, AlertStates and the scheduler counters as
\* they are, and calls no join; so when the poll loop is served an entry,
\* whoever stored it, every session of it that is not known is new for the
\* tick: it counts as found, becomes known, and is joined when it is
\* eligible.
C26_HandlersLeaveEntities ==
    [][/\ HandlerStep =>
            /\ KnownSessions' = KnownSessions
            /\ KnownFreeElectricitySessions' = KnownFreeElectricitySessions
            /\ AlertStates' = AlertStates
            /\ consecutiveEmptyChecks' = consecutiveEmptyChecks
            /\ lastNewSessionTime' = lastNewSessionTime
            /\ gJoinAttempts' = gJoinAttempts
            /\ pcLoop' = pcLoop
       /\ (pcLoop = "waiting" /\ pcLoop' = "free") =>
            LET list == CachedSavingSessions.Data.JoinedEvents
            IN  \A i \in 1..Len(list) :
                  list[i].EventID \notin KnownSessions =>
                      /\ foundSaving'
                      /\ list[i].EventID \in KnownSessions'
                      /\ (list[i].StartAt > now
                            /\ list[i].OctoPoints >= minPointsThreshold)
                           => gJoinAttempts'[list[i].EventID] = 1]_vars

\* the handler of /api/sessions fetched and stored the list with a session
\* the loop had not seen; the tick that followed was served the stored
\* entry, found the session new and joined it
C26_Witness ==
    /\ gStoredBy.saving = "web"
    /\ pcLoop = "free"
    /\ foundSaving
    /\ Len(gSessionLog) = 1
    /\ ~gSessionLog[1].wasKnown
    /\ gSessionLog[1].joined
    /\ gSessionLog[1].at = now
    /\ KnownSessions = {1}
    /\ gJoinAttempts[1] = 1

\* a tick is under way
InTick == pcLoop \in {"saving_fetch", "free", "free_fetch"}

\* C27: once stopCh or the context is closed while the loop is in its
\* select, no tick starts any more and StartWithContext returns; and a tick
\* that was under way when the signal came is complete, its Save included,
\* when the loop is over.
C27_Cancellation ==
    /\ [][(InSelect /\ InTick') => ~(stopCh \/ ctxDone)]_vars
    /\ (InSelect /\ (stopCh \/ ctxDone)) ~> (pcLoop = "returned")
    /\ []((gSignal.pc = "tick" /\ (exited \/ pcLoop = "returned"))
            => (pcLoop = "returned" /\ gSave.at = gSignal.at))

\* an answer with a retryable status that is followed by another attempt
RetriedAnswer ==
    /\ call.fn = "makeRequestWithRetry"
    /\ ~call.reply.err
    /\ ret.retry

\* C28 as stated: after a retryable answer whose Retry-After is an integer
\* n the next attempt leaves exactly n seconds after the answer; without
\* such a header it leaves after the computed backoff of the attempt.
C28_RetryAfterExact ==
    RetriedAnswer =>
        ret.delay = IF call.reply.retryAfter.kind = "int"
                    THEN call.reply.retryAfter.seconds * 10
                    ELSE calculateBackoff(call.attempt, call.jitter)

\* C28: after a retryable answer whose Retry-After is an integer n the
\* backoff handed to the sleep is n seconds, and the next attempt leaves
\* n seconds after the answer or one minimum interval after the attempt
\* before it, whichever is later (for n >= 1: exactly n seconds after the
\* answer; for n <= 0: when the minimum interval is over); without such a
\* header it leaves exactly the computed backoff of the attempt after the
\* answer.
C28_RetryAfterHonoured ==
    RetriedAnswer =>
        IF call.reply.retryAfter.kind = "int"
        THEN LET n == call.reply.retryAfter.seconds
             IN  /\ ret.sleep = n * 10
                 /\ ret.delay = Max(Max(n * 10, 0),
                                    HTTPMinInterval - call.latency)
                 /\ n >= 1 => ret.delay = n * 10
                 /\ n <= 0 => ret.delay = HTTPMinInterval - call.latency
        ELSE /\ ret.sleep = calculateBackoff(call.attempt, call.jitter)
             /\ ret.delay = ret.sleep

\* a 429 with Retry-After: 2 at the first attempt: the next attempt leaves
\* two seconds after the answer, not after the backoff of one second
C28_Witness ==
    /\ RetriedAnswer
    /\ call.reply.status = 429
    /\ call.reply.retryAfter = [kind |-> "int", seconds |-> 2]
    /\ call.attempt = 0
    /\ ret.delay = 20
    /\ calculateBackoff(call.attempt, call.jitter) = 10

\* C29: for every attempt number and every draw calculateBackoff is at
\* least base x 2^attempt and at most 1.1 x base x 2^attempt, and it is
\* not below any backoff of the attempt before.
C29_BackoffBounds ==
    call.fn = "calculateBackoff" =>
        /\ ret.backoff >= BackoffBase * 2 ^ call.attempt
        /\ 10 * ret.backoff <= 11 * BackoffBase * 2 ^ call.attempt
        /\ call.attempt > 0 =>
              \A j \in JitterDraws(call.attempt - 1) :
                  calculateBackoff(call.attempt - 1, j) <= ret.backoff

\* the backoff of the third attempt with the largest draw: 4.3 seconds
C29_Witness ==
    /\ call.fn = "calculateBackoff"
    /\ call.attempt = 2
    /\ call.jitter = 3
    /\ ret.backoff = 43

\* C30: after invalidateJWTToken the token of the client is empty and its
\* expiry zero, and so are the token and the expiry of the attached state;
\* and the operation that comes next starts with a token exchange.
C30_InvalidateClears ==
    /\ [](call.fn = "invalidateJWTToken" =>
            /\ jwtToken = 0
            /\ jwtExpiry = -1
            /\ JWTToken = 0
            /\ JWTTokenExpiry = -1)
    /\ [][(call.fn = "invalidateJWTToken" /\ call'.fn = "getOctoPointsGraphQL")
            => /\ Len(gOutbound') >= 1
               /\ gOutbound'[1].kind = "token"
               /\ gOutbound'[1].token = 0]_vars

\* a token that was good for more than the refresh buffer was dropped, and
\* the operation made at the same instant exchanged the key for a token
\* where it would have sent the query with the token at hand
C30_Witness ==
    /\ call.fn = "getOctoPointsGraphQL"
    /\ gInvalidated.token # 0
    /\ gInvalidated.expiry - gInvalidated.at > JWTRefreshBuffer
    /\ Len(gOutbound) = 2
    /\ gOutbound[1].kind = "token"
    /\ gOutbound[1].at = gInvalidated.at
    /\ gOutbound[1].token = 0
    /\ jwtToken # 0
    /\ JWTToken = jwtToken
    /\ JWTTokenExpiry = jwtExpiry

\* a process has started for an account and the operating system let
\* LoadState reach and read what is there
Started ==
    /\ call.fn = "NewSavingSessionMonitor"
    /\ call.outcome = "ok"

\* the three collections of a state are there and empty
EmptyCollections(state) ==
    /\ state.nil = {}
    /\ DOMAIN state.AlertStates = {}
    /\ state.KnownSessions = {}
    /\ state.KnownFreeElectricitySessions = {}

\* C31: LoadState after a Save for the same account returns the known
\* saving-session ids, the known free-electricity codes, the alert records
\* with their five flags and the token that were saved; and an account for
\* which nothing was saved is handed nothing, whatever was saved for the
\* other account.
C31_SaveLoadRoundTrip ==
    Started =>
        LET g == gSaved[call.accountID]
            got == ret.loaded
        IN  /\ g.kind = "saved" =>
                  /\ ~got.err
                  /\ got.state.KnownSessions = g.app.KnownSessions
                  /\ got.state.KnownFreeElectricitySessions
                        = g.app.KnownFreeElectricitySessions
                  /\ DOMAIN got.state.AlertStates = DOMAIN g.app.AlertStates
                  /\ \A c \in DOMAIN g.app.AlertStates : \A st \in Stages :
                         got.state.AlertStates[c][st] = g.app.AlertStates[c][st]
                  /\ got.state.JWTToken = g.app.JWTToken
            /\ g.kind = "none" =>
                  /\ ~got.err
                  /\ EmptyCollections(got.state)
                  /\ got.state.JWTToken = 0

\* two accounts saved different states and the process of one of them
\* was handed its own: both ids, the code, all five flags, its token
C31_Witness ==
    /\ Started
    /\ gSaved[call.accountID].kind = "saved"
    /\ ret.loaded.state.JWTToken = 2
    /\ ret.loaded.state.KnownSessions = {2}
    /\ ret.loaded.state.KnownFreeElectricitySessions = {"A"}
    /\ \A st \in Stages : ret.loaded.state.AlertStates["A"][st]
    /\ \E other \in AccountIDs \ {call.accountID} :
          /\ gSaved[other].kind = "saved"
          /\ gSaved[other].app.JWTToken = 1
          /\ gSaved[other].app.KnownSessions = {1}

\* C32: LoadState returns an empty state and no error when there is no
\* state file for the account; and when the file lacks alert_states,
\* known_sessions or known_free_electricity_sessions, the loaded state has
\* that collection, empty, and no error.
C32_LoadTolerant ==
    Started =>
        LET g == gSaved[call.accountID]
            file == stateFiles[getStateFilePath(call.accountID)]
            got == ret.loaded
        IN  /\ ~file.exists =>
                  /\ ~got.err
                  /\ EmptyCollections(got.state)
            /\ g.kind = "older" =>
                  /\ ~got.err
                  /\ got.state.nil = {}
                  /\ ~file.doc.alert_states.has =>
                        DOMAIN got.state.AlertStates = {}
                  /\ ~file.doc.known_sessions.has =>
                        got.state.KnownSessions = {}
                  /\ ~file.doc.known_free_electricity_sessions.has =>
                        got.state.KnownFreeElectricitySessions = {}

\* a file without known_free_electricity_sessions: the loaded state has
\* the collection, empty, next to the session id and the record of the file
C32_Witness ==
    /\ Started
    /\ gSaved[call.accountID].kind = "older"
    /\ ~stateFiles[getStateFilePath(call.accountID)]
           .doc.known_free_electricity_sessions.has
    /\ ~ret.loaded.err
    /\ ret.loaded.state.nil = {}
    /\ ret.loaded.state.KnownFreeElectricitySessions = {}
    /\ ret.loaded.state.KnownSessions = {2}
    /\ DOMAIN ret.loaded.state.AlertStates = {"A"}

Precedence(arg, env, key, default) ==
    IF arg.given THEN arg.v
    ELSE IF env.given THEN env.v
    ELSE IF key.given THEN key.v
    ELSE default

\* C33: every setting main goes on with is the one given on the command
\* line, else the one of the environment, else the one of the configuration
\* file: -min-points=0 gives threshold 0 whatever min_points the file has,
\* -port=8080 gives port 8080 whatever web_port the file has.
C33_Precedence ==
    call.fn = "mainSettings" =>
        /\ ret.settings.minPoints
              = Precedence(call.args.minPoints, NotGiven,
                           call.file.min_points, 0)
        /\ ret.settings.webPort
              = Precedence(call.args.port, NotGiven, call.file.web_port, 8080)
        /\ ret.settings.daemon
              = Precedence(call.args.daemon, NotGiven, call.file.daemon, FALSE)
        /\ ret.settings.accountID
              = Precedence(call.args.account,
                           IF call.env = "" THEN NotGiven ELSE Given(call.env),
                           call.file.account_id, "")

\* the token at hand is kept: its expiry is set and more than the refresh
\* buffer after the instant of the call
KeptAtCall ==
    /\ call.before.jwtExpiry # -1
    /\ call.before.jwtExpiry - call.at > JWTRefreshBuffer

\* the client and the attached state hold the token and the expiry they
\* held before the call
CredentialAsBefore ==
    /\ jwtToken = call.before.jwtToken
    /\ jwtExpiry = call.before.jwtExpiry
    /\ JWTToken = call.before.JWTToken
    /\ JWTTokenExpiry = call.before.JWTTokenExpiry

\* the exchange failed: no answer, a status other than 200, an error
\* payload, or an empty token
ExchangeFailed(xreply) ==
    \/ xreply.err
    \/ xreply.status # 200
    \/ xreply.body = "errors"
    \/ (xreply.body = "token" /\ xreply.token = 0)

\* C34: refreshJWTToken makes no exchange and leaves token and expiry as
\* they are when the stored expiry is set and more than 5 minutes ahead;
\* otherwise it makes exactly one exchange, and when that exchange fails it
\* returns an error and the token and expiry of the client and of the
\* attached state are as before.
C34_RefreshFrame ==
    call.fn = "refreshJWTToken" =>
        /\ KeptAtCall =>
              /\ gOutbound = <<>>
              /\ ~ret.err
              /\ CredentialAsBefore
        /\ ~KeptAtCall =>
              /\ Len(gOutbound) = 1
              /\ Exchanges(gOutbound) = {1}
        /\ (~KeptAtCall /\ ExchangeFailed(call.exchange)) =>
              /\ ret.err
              /\ CredentialAsBefore

\* a token whose expiry is no more than 5 minutes ahead, an exchange that
\* answers 200 with an empty token: an error, and the client and the state
\* still hold the token
C34_Witness ==
    /\ call.fn = "refreshJWTToken"
    /\ call.before.jwtToken = 1
    /\ call.before.jwtExpiry # -1
    /\ ~KeptAtCall
    /\ call.exchange.status = 200
    /\ call.exchange.body = "token"
    /\ call.exchange.token = 0
    /\ ret.err
    /\ jwtToken = 1
    /\ JWTToken = 1
    /\ JWTTokenExpiry = call.before.JWTTokenExpiry

\* the read asked the account endpoint, which answered, and the points
\* query failed
PointsFailed(read) ==
    /\ read.kind = "saving"
    /\ read.remote
    /\ read.fetched.ok
    /\ read.fetched.pointsErr

\* C36: when the fetch of the session list succeeds and the fetch of the
\* points fails, GetSavingSessionsWithCache returns no error and a balance
\* of 0 and stores that result with the current time; and a read that finds
\* the entry fresh returns balance 0 and asks neither endpoint again.
C36_PointsFailureCached ==
    /\ [](PointsFailed(gSSRead) =>
            /\ ~gSSRead.err
            /\ gSSRead.Data.CurrentPointsInWallet = 0
            /\ gSSRead.Data.JoinedEvents = gSSRead.fetched.value.JoinedEvents
            /\ CachedSavingSessions
                  = [set |-> TRUE, Data |-> gSSRead.Data,
                     Timestamp |-> gSSRead.at])
    /\ [][(PointsFailed(gSSRead) /\ now' # now
            /\ now' - gSSRead.at < SavingSessionsCacheAge)
            => /\ ~gSSRead'.remote
               /\ ~gSSRead'.err
               /\ gSSRead'.Data.CurrentPointsInWallet = 0
               /\ gSSRead'.Data = gSSRead.Data
               /\ CachedSavingSessions' = CachedSavingSessions]_vars

\* the read at 14:09 finds the entry of 14:05, stored with a session and
\* balance 0, and returns it without asking
C36_Witness ==
    /\ now = T0 + 4
    /\ gSSRead.kind = "saving"
    /\ gSSRead.had
    /\ gSSRead.age = 4
    /\ ~gSSRead.remote
    /\ ~gSSRead.err
    /\ gSSRead.Data.CurrentPointsInWallet = 0
    /\ Len(gSSRead.Data.JoinedEvents) = 1
    /\ CachedSavingSessions.Timestamp = T0

\* the evaluation found no record for the code, and the session had not
\* ended on the clock of shouldAlert
FirstSight(e) == ~e.existed /\ ~(e.EndAt < e.at)

\* C37: the first evaluation of a free-electricity session that has no
\* alert record and has not ended fires exactly one alert, whatever the
\* time until its start: ACTIVE NOW when the session is active, otherwise
\* the alert of the tightest stage the time until start satisfies.
C37_FirstSightAlerts ==
    \A k \in LogIndex(gEvalLog) :
        LET e == gEvalLog[k]
        IN  FirstSight(e) =>
              /\ e.fire
              /\ Cardinality(NewlySet(e)) = 1
              /\ Active(e) => e.type = "ACTIVE NOW"
              /\ ~Active(e) =>
                    /\ e.type # "ACTIVE NOW"
                    /\ Satisfied(StageOf(e.type), e.timeUntil)
                    /\ \A s \in Stages :
                          Satisfied(s, e.timeUntil)
                             => Rank(StageOf(e.type)) <= Rank(s)

\* a session seen for the first time ten hours before its start: the
\* twelve-hour reminder, with no initial and no day-of alert before it
C37_Witness ==
    \E k \in LogIndex(gEvalLog) :
        /\ FirstSight(gEvalLog[k])
        /\ gEvalLog[k].timeUntil > AlertIntervalSixHour
        /\ gEvalLog[k].timeUntil <= AlertIntervalTwelveHour
        /\ gEvalLog[k].fire
        /\ gEvalLog[k].type = "12-HOUR REMINDER"
        /\ ~gEvalLog[k].after["InitialAlert"]
        /\ ~gEvalLog[k].after["DayOfAlert"]

\* the event ids and the codes a tick processed
ProcessedIDs(log) == {log[k].EventID : k \in LogIndex(log)}

ProcessedCodes(log) == {log[k].Code : k \in LogIndex(log)}

\* C38: an event id or a code makes a tick report new sessions at most
\* once: what a tick processed is known from then on and is never
\* forgotten, a tick reports new sessions only when it processed an
\* identifier that was not known before, and a tick that processed only
\* known identifiers reports nothing new and adds one to
\* consecutiveEmptyChecks.
C38_FoundNewOnce ==
    [][now' # now =>
         LET ids == ProcessedIDs(gSessionLog')
             codes == ProcessedCodes(gEvalLog')
             reported == consecutiveEmptyChecks' = 0 /\ lastNewSessionTime' = now'
         IN  /\ KnownSessions \subseteq KnownSessions'
             /\ KnownFreeElectricitySessions \subseteq KnownFreeElectricitySessions'
             /\ ids \subseteq KnownSessions'
             /\ codes \subseteq KnownFreeElectricitySessions'
             /\ reported =>
                   \/ ids \ KnownSessions # {}
                   \/ codes \ KnownFreeElectricitySessions # {}
             /\ (/\ ids \subseteq KnownSessions
                 /\ codes \subseteq KnownFreeElectricitySessions) =>
                   /\ ~reported
                   /\ consecutiveEmptyChecks' = consecutiveEmptyChecks + 1
                   /\ lastNewSessionTime' = lastNewSessionTime]_vars

\* the third tick in a row that processed a session and a code: both were
\* new at 14:05, and the two ticks after it counted as empty
C38_Witness ==
    /\ lastNewSessionTime = T0
    /\ consecutiveEmptyChecks = 2
    /\ gSessionLog # <<>>
    /\ \A k \in LogIndex(gSessionLog) : gSessionLog[k].wasKnown
    /\ gEvalLog # <<>>
    /\ ProcessedIDs(gSessionLog) \subseteq KnownSessions
    /\ ProcessedCodes(gEvalLog) \subseteq KnownFreeElectricitySessions

\* C39: with smart scheduling, when the loop computes the wait after a
\* tick, consecutiveEmptyChecks is 0 only if that tick found something new;
\* a tick that found something new is followed by a wait of 5 minutes
\* whatever the time of day; and the wait is never the 30 minutes of the
\* off-peak branch with the counter at 0.
C39_ZeroCounterMeansFound ==
    [][(now' # now /\ gSave.at # -1) =>
         /\ consecutiveEmptyChecks = 0 => lastNewSessionTime = now
         /\ lastNewSessionTime = now => now' - now = IntervalPeakAnnouncement
         /\ ~(consecutiveEmptyChecks = 0 /\ now' - now = IntervalOffPeak)]_vars

\* a process started on a Saturday at 14:05 found a session in its first
\* tick and ticked again at 14:10, finding nothing new
C39_Witness ==
    /\ lastNewSessionTime = T0 + 7200
    /\ now = T0 + 7200 + IntervalPeakAnnouncement
    /\ gSave.at = now
    /\ consecutiveEmptyChecks = 1
    /\ KnownSessions # {}

====
